---- MODULE Spec2Model ----
(***************************************************************************)
(* Model of the refresh coordination and diffing core of refreshing-config *)
(* (class RefreshingConfig of src/index.js, its refresh policies, and the  *)
(* in-memory store and pub/sub extension of src/inmemoryStore.js).         *)
(*                                                                         *)
(* One JavaScript turn of the event loop (a synchronous call, or one       *)
(* promise callback) is one action.  The store is asynchronous: a call to  *)
(* store.getAll/set/delete is issued in one action and settles in a later  *)
(* one, and the callbacks chained on it run in later actions again.        *)
(***************************************************************************)
EXTENDS Integers, Sequences, FiniteSets, TLC

\* ------------------------------------------------------------------ bounds
MaxAtom == 2        \* primitive configuration values are 1..MaxAtom
MaxFetches == 2     \* store.getAll() calls in one behaviour
MaxOps == 2         \* callers (pending get/getAll/set/... calls) at one time
CoordMaxExt == 1    \* extensions per list in the specification of the interleavings
MaxPolicies == 2    \* refresh policies in the specification of the policy gate
MaxReads == 3       \* reads counted in the read-only scenarios
MaxTime == 4        \* the clock runs 0..MaxTime (milliseconds)
Duration == 2       \* the duration given to StaleRefreshPolicy
MaxPublishers == 2  \* change publishers in the specification of the mutations
MaxThrows == 2      \* get() calls without a name in one behaviour
MaxTimers == 2      \* timers an IntervalRefreshPolicy starts in one behaviour
Period == 2         \* the duration given to IntervalRefreshPolicy
MaxCalls == 3       \* calls recorded in log in one behaviour (unsubscribe, publish, done, call, ...)
MaxListeners == 2   \* listeners registered for 'changed' in one behaviour

\* ------------------------------------------------------------------ values
\* The reserved key the constructor puts in the snapshot (this.config._emitter).
EmitterKey == "_emitter"
Keys == {"a", "b"}
AllKeys == {EmitterKey} \cup Keys
\* Object.keys order of a mapping, and of an object's members: "store" stands
\* for the own properties of the coordinator (this.store and the others), which
\* come before any member a patch adds to it; the objects a store returns have
\* the members s and t only.
KeyOrder == <<"_emitter", "a", "b">>
SubOrder == <<"store", "s", "t">>

\* A configuration value: absent (undefined), a primitive, or a nested object
\* with members s and t (member 0 = the member is absent); EmitterRef is the
\* reference to the coordinator stored under the reserved key, an object too
\* (v = 1: it has its own properties; v = 0: they were removed from it).
Absent == [kind |-> "absent", v |-> 0, s |-> 0, t |-> 0]
Prim(x) == [kind |-> "prim", v |-> x, s |-> 0, t |-> 0]
Obj(x, y) == [kind |-> "obj", v |-> 0, s |-> x, t |-> y]
EmitterRef == [kind |-> "emitter", v |-> 1, s |-> 0, t |-> 0]

Atoms == 1..MaxAtom
PrimVals == {Prim(x) : x \in Atoms}
ObjVals == {Obj(x, y) : x \in 0..MaxAtom, y \in 0..MaxAtom}

Member(val, m) ==
    IF m = "store" THEN (IF val.kind = "emitter" THEN val.v ELSE 0)
    ELSE IF m = "s" THEN val.s ELSE val.t
SetMember(val, m, x) ==
    IF m = "store" THEN [val EXCEPT !.v = x]
    ELSE IF m = "s" THEN [val EXCEPT !.s = x] ELSE [val EXCEPT !.t = x]
\* typeof val == "object" && val != null: the nested objects a store returns
\* and the coordinator under the reserved key.
IsObject(val) == val.kind \in {"obj", "emitter"}

EmptyMapping == [k \in AllKeys |-> Absent]
\* A store mapping: plain keys hold values of vals or nothing; the reserved
\* name may also be used as a key by the store, holding a value of reserved.
Mappings(vals, reserved) ==
    {m \in [AllKeys -> vals \cup reserved \cup PrimVals \cup {Absent}] :
        /\ m[EmitterKey] \in reserved
        /\ \A k \in Keys : m[k] \in vals \cup {Absent}}

\* --------------------------------------------------------- JSON patch (diff)
RemoveOp(p) == [op |-> "remove", path |-> p, value |-> Absent]
ReplaceOp(p, val) == [op |-> "replace", path |-> p, value |-> val]
AddOp(p, val) == [op |-> "add", path |-> p, value |-> val]

\* patch.compare on two nested objects: the members of the old object in
\* reverse order (replace / remove), then the members only the new one has.
RECURSIVE generateMembersOld(_, _, _, _)
generateMembersOld(key, oldVal, newVal, t) ==
    IF t = 0 THEN <<>>
    ELSE LET m == SubOrder[t]
             here == IF Member(oldVal, m) = 0 THEN <<>>
                     ELSE IF Member(newVal, m) # 0
                          THEN IF Member(oldVal, m) # Member(newVal, m)
                               THEN <<ReplaceOp(<<key, m>>, Prim(Member(newVal, m)))>>
                               ELSE <<>>
                          ELSE <<RemoveOp(<<key, m>>)>>
         IN here \o generateMembersOld(key, oldVal, newVal, t - 1)

RECURSIVE generateMembersNew(_, _, _, _)
generateMembersNew(key, oldVal, newVal, t) ==
    IF t > Len(SubOrder) THEN <<>>
    ELSE LET m == SubOrder[t]
             here == IF Member(oldVal, m) = 0 /\ Member(newVal, m) # 0
                     THEN <<AddOp(<<key, m>>, Prim(Member(newVal, m)))>>
                     ELSE <<>>
         IN here \o generateMembersNew(key, oldVal, newVal, t + 1)

generateMembers(key, oldVal, newVal) ==
    generateMembersOld(key, oldVal, newVal, Len(SubOrder))
        \o generateMembersNew(key, oldVal, newVal, 1)

\* The pass over the old mapping's keys, in reverse order.
RECURSIVE generateOld(_, _, _)
generateOld(mirror, obj, t) ==
    IF t = 0 THEN <<>>
    ELSE LET key == KeyOrder[t]
             oldVal == mirror[key]
             newVal == obj[key]
             here == IF oldVal.kind = "absent" THEN <<>>
                     ELSE IF newVal.kind # "absent"
                          THEN IF IsObject(oldVal) /\ IsObject(newVal)
                               THEN generateMembers(key, oldVal, newVal)
                               ELSE IF oldVal # newVal
                                    THEN <<ReplaceOp(<<key>>, newVal)>>
                                    ELSE <<>>
                          ELSE <<RemoveOp(<<key>>)>>
         IN here \o generateOld(mirror, obj, t - 1)

\* The pass over the new mapping's keys, in order: the keys only it has.
RECURSIVE generateNew(_, _, _)
generateNew(mirror, obj, t) ==
    IF t > Len(KeyOrder) THEN <<>>
    ELSE LET key == KeyOrder[t]
             here == IF mirror[key].kind = "absent" /\ obj[key].kind # "absent"
                     THEN <<AddOp(<<key>>, obj[key])>>
                     ELSE <<>>
         IN here \o generateNew(mirror, obj, t + 1)

\* patch.compare(mirror, obj): the operations that turn mirror into obj.
compare(mirror, obj) ==
    generateOld(mirror, obj, Len(KeyOrder)) \o generateNew(mirror, obj, 1)

\* One operation applied to a document.
applyOperation(doc, o) ==
    LET key == o.path[1] IN
    IF Len(o.path) = 1
    THEN IF o.op = "remove" THEN [doc EXCEPT ![key] = Absent]
         ELSE [doc EXCEPT ![key] = o.value]
    ELSE IF ~IsObject(doc[key]) THEN doc
         ELSE IF o.op = "remove"
              THEN [doc EXCEPT ![key] = SetMember(doc[key], o.path[2], 0)]
              ELSE [doc EXCEPT ![key] = SetMember(doc[key], o.path[2], o.value.v)]

\* patch.apply(doc, patches): the operations applied in order.
RECURSIVE applyPatch(_, _)
applyPatch(doc, patches) ==
    IF patches = <<>> THEN doc
    ELSE applyPatch(applyOperation(doc, Head(patches)), Tail(patches))

\* ------------------------------------------------------------------- state
OpIds == 1..MaxOps
FetchIds == 1..MaxFetches

\* The extension objects handed to withExtension: null, an object without any
\* capability, the three reactive policies, IntervalRefreshPolicy,
\* InMemoryPubSubRefreshPolicyAndChangePublisher, a bare change publisher and
\* a change publisher whose publish() throws.
Extensions ==
    {"null", "plain", "always", "never", "stale", "interval", "pubsub", "publisher", "thrower"}
HasSubscribe(e) == e \in {"interval", "pubsub"}
HasShouldRefresh(e) == e \in {"always", "never", "stale"}
HasPublish(e) == e \in {"pubsub", "publisher", "thrower"}

VARIABLES
    store,            \* the backing store's mapping
    config,           \* this.config, the live snapshot
    firstTime,        \* this.firstTime
    refreshPolicies,  \* this.refreshPolicies
    changePublishers, \* this.changePublishers
    refreshPromise,   \* this.refreshPromise: 0 (null) or the fetch it waits for
    fetches,          \* the store.getAll() calls made so far and their promises
    ops,              \* the callers: pending and finished get/getAll/set/... calls
    subscriber,       \* the proactive extensions: this.subscriber of each, and the timers
    lastRefresh,      \* StaleRefreshPolicy.lastRefresh (-1: not set)
    now,              \* the clock
    last,             \* what the latest completed refresh cycle did
    lastCall,         \* what the latest refreshIfNeeded() call did
    hist,             \* counters of the read-only scenarios
    log,              \* the calls made on the store and the publishers, and the events emitted
    applying          \* the latest apply(patches) call and the promise it returned

vars == <<store, config, firstTime, refreshPolicies, changePublishers, refreshPromise,
          fetches, ops, subscriber, lastRefresh, now, last, lastCall, hist, log, applying>>

\* A store.getAll() call: issued (outstanding), responded (the store's promise
\* is fulfilled with data, the callback has not run yet), fulfilled (the
\* callback ran: the refresh promise is resolved with val), rejected.
NoFetch == [st |-> "unused", data |-> EmptyMapping, val |-> EmptyMapping, at |-> 0]
Used(fs) == Cardinality({c \in FetchIds : fs[c].st # "unused"})
Outstanding(fs) == {c \in FetchIds : fs[c].st = "issued"}
\* Fetches whose result is not applied to the snapshot yet.
InFlight(fs) == {c \in FetchIds : fs[c].st \in {"issued", "responded"}}
MaxOf(S) == IF S = {} THEN 0 ELSE CHOOSE x \in S : \A y \in S : y <= x

IdleOp == [kind |-> "none", pc |-> "idle", name |-> "", value |-> Absent, on |-> 0,
           during |-> 0, issued |-> FALSE, val |-> Absent, snap |-> EmptyMapping]
\* A caller slot is free when no call is pending in it; a new call takes the
\* lowest free slot (the slots are interchangeable).
Finished(i) == ops[i].pc \in {"idle", "done", "failed"}
Free(i) == Finished(i) /\ \A j \in OpIds : j < i => ~Finished(j)
\* Caller i makes a new call; the records of the calls that are over are dropped.
Start(i, op) == [j \in OpIds |-> IF j = i THEN op ELSE IF Finished(j) THEN IdleOp ELSE ops[j]]

NoCycle == [c |-> 0, pre |-> EmptyMapping, fetched |-> EmptyMapping, patch |-> <<>>,
            events |-> <<>>]
NoCall == [made |-> FALSE, first |-> FALSE, policies |-> <<>>, asked |-> <<>>, answers |-> <<>>,
           refreshed |-> FALSE, issued |-> FALSE, rpBefore |-> 0, on |-> 0]
NoHist == [reads |-> 0, sequential |-> TRUE, direct |-> FALSE]
\* this.subscriber of a proactive extension: unset, the coordinator, or an
\* object some other caller handed to subscribe().
Nobody == "nobody"
Self == "coordinator"
Stranger == "other"
\* The timers IntervalRefreshPolicy started with setInterval, in order: the
\* subscriber the closure calls, whether the timer runs, when it was started
\* and when it is due.
\* this.interval is the handle of the latest one.
NoSubscribers == [interval |-> Nobody, pubsub |-> Nobody, timers |-> <<>>]
Running(sub) == {n \in DOMAIN sub.timers : sub.timers[n].on}

NoApply == [pc |-> "idle", patches |-> <<>>, pre |-> EmptyMapping, post |-> EmptyMapping,
            calls |-> <<>>, parts |-> <<>>, state |-> <<>>, wrote |-> <<>>, failedAt |-> 0]

\* constructor(store)
InitWith(stores) ==
    /\ store \in stores
    /\ config = [k \in AllKeys |-> IF k = EmitterKey THEN EmitterRef ELSE Absent]
    /\ firstTime = TRUE
    /\ refreshPolicies = <<>>
    /\ changePublishers = <<>>
    /\ refreshPromise = 0
    /\ fetches = [c \in FetchIds |-> NoFetch]
    /\ ops = [i \in OpIds |-> IdleOp]
    /\ subscriber = NoSubscribers
    /\ lastRefresh = -1
    /\ now = 0
    /\ last = NoCycle
    /\ lastCall = NoCall
    /\ hist = NoHist
    /\ log = <<>>
    /\ applying = NoApply

\* ----------------------------------------------------------------- refresh
\* Faulty variant of refresh: store.getAll() is called whether or not a refresh
\* promise is held.
refreshNoCoalescing(rp, fs, t) ==
    LET c == Used(fs) + 1 IN
    [refreshPromise |-> c,
     fetches |-> [x \in DOMAIN fs |-> IF x = c THEN [NoFetch EXCEPT !.st = "issued", !.at = t] ELSE fs[x]],
     on |-> c, issued |-> TRUE]

\* refresh() up to the point it returns: with a refresh promise held the
\* caller gets that promise; otherwise store.getAll() is called and the promise
\* chained on it is kept in this.refreshPromise.
refresh(rp, fs, t) ==
    IF rp # 0
    THEN [refreshPromise |-> rp, fetches |-> fs, on |-> rp, issued |-> FALSE]
    ELSE LET c == Used(fs) + 1 IN
         [refreshPromise |-> c,
          fetches |-> [x \in DOMAIN fs |-> IF x = c THEN [NoFetch EXCEPT !.st = "issued", !.at = t] ELSE fs[x]],
          on |-> c, issued |-> TRUE]

\* The bound on store.getAll() calls: a call that would exceed it is not made.
Fits(r) == r.on \in FetchIds

\* Faulty variants of stripEmitterPatch: nothing is taken out; splice(index) without a
\* count takes out everything from the entry on.
stripNothing(configPatch) == configPatch

stripToEnd(configPatch) ==
    LET hits == {n \in 1..Len(configPatch) : configPatch[n].path = <<EmitterKey>>} IN
    IF hits = {} THEN configPatch
    ELSE SubSeq(configPatch, 1, (CHOOSE n \in hits : \A m \in hits : n <= m) - 1)

\* The reserved key's own entry is taken out of the computed patch.
stripEmitterPatch(configPatch) ==
    LET hits == {n \in 1..Len(configPatch) : configPatch[n].path = <<EmitterKey>>} IN
    IF hits = {} THEN configPatch
    ELSE LET emitterPatchIndex == CHOOSE n \in hits : \A m \in hits : n <= m IN
         SubSeq(configPatch, 1, emitterPatchIndex - 1)
            \o SubSeq(configPatch, emitterPatchIndex + 1, Len(configPatch))

\* Faulty variant of applyAndEmit: 'changed' is emitted before the patch is applied.
emitThenApply(cfg, configPatch) ==
    LET applied == IF Len(configPatch) # 0 THEN applyPatch(cfg, configPatch) ELSE cfg
        changed == IF Len(configPatch) # 0
                   THEN <<[name |-> "changed", config |-> cfg, patch |-> configPatch]>>
                   ELSE <<>>
    IN [config |-> applied,
        events |-> changed \o <<[name |-> "refresh", config |-> applied, patch |-> <<>>]>>]

\* Faulty variant of applyAndEmit: 'refresh' is emitted before 'changed'.
emitRefreshFirst(cfg, configPatch) ==
    LET applied == IF Len(configPatch) # 0 THEN applyPatch(cfg, configPatch) ELSE cfg
        changed == IF Len(configPatch) # 0
                   THEN <<[name |-> "changed", config |-> applied, patch |-> configPatch]>>
                   ELSE <<>>
    IN [config |-> applied,
        events |-> <<[name |-> "refresh", config |-> applied, patch |-> <<>>]>> \o changed]

\* Faulty variant of applyAndEmit: 'refresh' is emitted inside the if, with
\* 'changed'.
applyAndEmitIfChanged(cfg, configPatch) ==
    LET applied == IF Len(configPatch) # 0 THEN applyPatch(cfg, configPatch) ELSE cfg
    IN [config |-> applied,
        events |-> IF Len(configPatch) # 0
                   THEN <<[name |-> "changed", config |-> applied, patch |-> configPatch],
                          [name |-> "refresh", config |-> applied, patch |-> <<>>]>>
                   ELSE <<>>]

\* The rest of the callback: a non-empty patch is applied to the snapshot and
\* 'changed' is emitted with it; 'refresh' is emitted in any case.
applyAndEmit(cfg, configPatch) ==
    LET applied == IF Len(configPatch) # 0 THEN applyPatch(cfg, configPatch) ELSE cfg
        changed == IF Len(configPatch) # 0
                   THEN <<[name |-> "changed", config |-> applied, patch |-> configPatch]>>
                   ELSE <<>>
    IN [config |-> applied,
        events |-> changed \o <<[name |-> "refresh", config |-> applied, patch |-> <<>>]>>]

\* store.getAll()'s promise is fulfilled with the store's mapping.
storeGetAllResolves(c) ==
    /\ fetches[c].st = "issued"
    /\ fetches' = [fetches EXCEPT ![c].st = "responded", ![c].data = store]
    /\ UNCHANGED <<store, config, firstTime, refreshPolicies, changePublishers,
                   refreshPromise, ops, subscriber, lastRefresh, now>>

\* store.getAll()'s promise is rejected: the promise chained on it is rejected
\* too and the callback never runs (this.refreshPromise keeps that promise).
storeGetAllRejects(c) ==
    /\ fetches[c].st = "issued"
    /\ fetches' = [fetches EXCEPT ![c].st = "rejected"]
    /\ UNCHANGED <<store, config, firstTime, refreshPolicies, changePublishers,
                   refreshPromise, ops, subscriber, lastRefresh, now>>

\* What the callback of refresh() computes from the fetched mapping.
refreshResult(cfg, newConfig) ==
    LET configPatch == stripEmitterPatch(compare(cfg, newConfig))
        r == applyAndEmit(cfg, configPatch)
    IN [config |-> r.config, patch |-> configPatch, events |-> r.events]

\* The callback of refresh(): .then(newConfig => {...}).
refreshThen(c) ==
    /\ fetches[c].st = "responded"
    /\ LET r == refreshResult(config, fetches[c].data)
       IN /\ refreshPromise' = 0
          /\ config' = r.config
          /\ fetches' = [fetches EXCEPT ![c].st = "fulfilled", ![c].val = r.config]
    /\ UNCHANGED <<store, firstTime, refreshPolicies, changePublishers, ops,
                   subscriber, lastRefresh, now>>

\* The listeners of a cycle's events that call refresh() from inside the
\* event: one refresh() call per event emitted that has such a listener, in
\* the order of the events, starting with the refresh promise the callback
\* left (calls: the event, the promise returned, whether store.getAll() was
\* called).
RECURSIVE emitToCallers(_, _, _, _, _, _)
emitToCallers(events, n, listening, rp, fs, t) ==
    IF n > Len(events)
    THEN [refreshPromise |-> rp, fetches |-> fs, fits |-> TRUE, calls |-> <<>>]
    ELSE IF events[n].name \notin listening
         THEN emitToCallers(events, n + 1, listening, rp, fs, t)
         ELSE LET r == refresh(rp, fs, t) IN
              IF ~Fits(r)
              THEN [refreshPromise |-> rp, fetches |-> fs, fits |-> FALSE, calls |-> <<>>]
              ELSE LET rest == emitToCallers(events, n + 1, listening, r.refreshPromise,
                                             r.fetches, t)
                   IN [refreshPromise |-> rest.refreshPromise, fetches |-> rest.fetches,
                       fits |-> rest.fits,
                       calls |-> <<[event |-> events[n].name, on |-> r.on,
                                    issued |-> r.issued]>> \o rest.calls]

\* The callback of refresh() with such listeners registered for the events in
\* listening: self.refreshPromise = null is its first statement, the events
\* are emitted after it, and what a listener's refresh() stores in
\* this.refreshPromise is still there when the callback returns.
refreshThenListened(c, listening) ==
    /\ fetches[c].st = "responded"
    /\ LET r == refreshResult(config, fetches[c].data)
           e == emitToCallers(r.events, 1, listening, 0, fetches, now)
       IN /\ e.fits
          /\ refreshPromise' = e.refreshPromise
          /\ config' = r.config
          /\ fetches' = [e.fetches EXCEPT ![c].st = "fulfilled", ![c].val = r.config]
    /\ UNCHANGED <<store, firstTime, refreshPolicies, changePublishers, ops,
                   subscriber, lastRefresh, now>>

\* Faulty variant of snapshotObject: the callback patches a copy and assigns
\* it to self.config, a new object (made: the objects made so far).
snapshotObjectCopied(obj, made) == made + 1

\* The object this.config names after the callback of refresh(), obj being the
\* one it named before: patch.apply(self.config, configPatch) changes that
\* object in place and self.config is assigned in the constructor only.
snapshotObject(obj, made) == obj

\* The record of the cycle that refreshThen(c) completes.
cycleRecord(c) ==
    LET r == refreshResult(config, fetches[c].data)
    IN [c |-> c, pre |-> config, fetched |-> fetches[c].data, patch |-> r.patch,
        events |-> r.events]

\* ---------------------------------------------------------- refresh policies
\* Faulty variant of shouldRefresh: the two constant policies answer the other way.
shouldRefreshSwapped(policy, lr, t) ==
    IF policy = "always" THEN [answer |-> FALSE, lastRefresh |-> lr]
    ELSE IF policy = "never" THEN [answer |-> TRUE, lastRefresh |-> lr]
    ELSE IF lr = -1 \/ t > lr + Duration
         THEN [answer |-> TRUE, lastRefresh |-> t]
         ELSE [answer |-> FALSE, lastRefresh |-> lr + Duration]

\* policy.shouldRefresh() at time t, with StaleRefreshPolicy.lastRefresh = lr.
\* AlwaysRefreshPolicy and NeverRefreshPolicy answer a constant.
\* StaleRefreshPolicy: moment() > this.lastRefresh.add(this.duration, 'ms');
\* add() moves lastRefresh itself, whatever the comparison then says.
shouldRefresh(policy, lr, t) ==
    IF policy = "always" THEN [answer |-> TRUE, lastRefresh |-> lr]
    ELSE IF policy = "never" THEN [answer |-> FALSE, lastRefresh |-> lr]
    ELSE IF lr = -1 \/ t > lr + Duration
         THEN [answer |-> TRUE, lastRefresh |-> t]
         ELSE [answer |-> FALSE, lastRefresh |-> lr + Duration]

\* Faulty variant of askPolicies: the loop has no break.
RECURSIVE askPoliciesNoBreak(_, _, _, _)
askPoliciesNoBreak(policies, i, lr, t) ==
    IF i > Len(policies) THEN [asked |-> <<>>, answers |-> <<>>, lastRefresh |-> lr]
    ELSE LET a == shouldRefresh(policies[i], lr, t)
             rest == askPoliciesNoBreak(policies, i + 1, a.lastRefresh, t)
         IN [asked |-> <<i>> \o rest.asked, answers |-> <<a.answer>> \o rest.answers,
             lastRefresh |-> rest.lastRefresh]

\* The loop of refreshIfNeeded over this.refreshPolicies from index i on.
RECURSIVE askPolicies(_, _, _, _)
askPolicies(policies, i, lr, t) ==
    IF i > Len(policies) THEN [asked |-> <<>>, answers |-> <<>>, lastRefresh |-> lr]
    ELSE LET a == shouldRefresh(policies[i], lr, t) IN
         IF a.answer
         THEN [asked |-> <<i>>, answers |-> <<TRUE>>, lastRefresh |-> a.lastRefresh]
         ELSE LET rest == askPolicies(policies, i + 1, a.lastRefresh, t) IN
              [asked |-> <<i>> \o rest.asked, answers |-> <<FALSE>> \o rest.answers,
               lastRefresh |-> rest.lastRefresh]

\* Faulty variant of refreshIfNeeded: the first call asks the policies like any other.
refreshIfNeededNoFirst(first, policies, lr, t, rp, fs) ==
    LET asking == askPolicies(policies, 1, lr, t)
        should == \E n \in 1..Len(asking.answers) : asking.answers[n]
        r == IF should THEN refresh(rp, fs, t)
             ELSE [refreshPromise |-> rp, fetches |-> fs, on |-> 0, issued |-> FALSE]
    IN [asked |-> asking.asked, answers |-> asking.answers,
        lastRefresh |-> asking.lastRefresh, refreshed |-> should,
        refreshPromise |-> r.refreshPromise, fetches |-> r.fetches, on |-> r.on,
        issued |-> r.issued]

\* refreshIfNeeded(): the first call refreshes; a later one asks the policies.
\* on = 0 stands for Q(this.config), a promise that is fulfilled already.
refreshIfNeeded(first, policies, lr, t, rp, fs) ==
    LET asking == IF first
                  THEN [asked |-> <<>>, answers |-> <<>>, lastRefresh |-> lr]
                  ELSE askPolicies(policies, 1, lr, t)
        should == first \/ (\E n \in 1..Len(asking.answers) : asking.answers[n])
        r == IF should THEN refresh(rp, fs, t)
             ELSE [refreshPromise |-> rp, fetches |-> fs, on |-> 0, issued |-> FALSE]
    IN [asked |-> asking.asked, answers |-> asking.answers,
        lastRefresh |-> asking.lastRefresh, refreshed |-> should,
        refreshPromise |-> r.refreshPromise, fetches |-> r.fetches, on |-> r.on,
        issued |-> r.issued]

\* The bound on the stamp of StaleRefreshPolicy, which add() keeps moving.
StampFits(lr) == lr <= MaxTime + Duration

\* A caller's call of get(name), getAll() or refreshIfNeeded() itself.
read(i, kind, name) ==
    LET r == refreshIfNeeded(firstTime, refreshPolicies, lastRefresh, now,
                             refreshPromise, fetches)
    IN /\ Free(i)
       /\ r.on \in {0} \cup FetchIds
       /\ StampFits(r.lastRefresh)
       /\ firstTime' = FALSE
       /\ lastRefresh' = r.lastRefresh
       /\ refreshPromise' = r.refreshPromise
       /\ fetches' = r.fetches
       /\ ops' = Start(i, [IdleOp EXCEPT !.kind = kind, !.pc = "waiting",
                                          !.name = name, !.on = r.on,
                                          !.during = MaxOf(InFlight(fetches)),
                                          !.issued = r.issued])
       /\ UNCHANGED <<store, config, refreshPolicies, changePublishers, subscriber, now>>

\* Faulty variant of getMissingName: the name is looked at only after
\* refreshIfNeeded() was called.
getMissingNameLate(i) ==
    LET r == refreshIfNeeded(firstTime, refreshPolicies, lastRefresh, now,
                             refreshPromise, fetches)
    IN /\ Free(i)
       /\ r.on \in {0} \cup FetchIds
       /\ firstTime' = FALSE
       /\ lastRefresh' = r.lastRefresh
       /\ refreshPromise' = r.refreshPromise
       /\ fetches' = r.fetches
       /\ ops' = Start(i, [IdleOp EXCEPT !.kind = "get", !.pc = "failed"])
       /\ UNCHANGED <<store, config, refreshPolicies, changePublishers, subscriber, now>>

\* get(name) with a missing name throws before anything else happens.
getMissingName(i) ==
    /\ Free(i)
    /\ ops' = Start(i, [IdleOp EXCEPT !.kind = "get", !.pc = "failed"])
    /\ UNCHANGED <<store, config, firstTime, refreshPolicies, changePublishers,
                   refreshPromise, fetches, subscriber, lastRefresh, now>>

get(i, name) == IF name = "" THEN getMissingName(i) ELSE read(i, "get", name)

getAll(i) == read(i, "getAll", "")

\* A caller's direct call of refresh().
refreshCall(i) ==
    LET r == refresh(refreshPromise, fetches, now) IN
    /\ Free(i)
    /\ Fits(r)
    /\ refreshPromise' = r.refreshPromise
    /\ fetches' = r.fetches
    /\ ops' = Start(i, [IdleOp EXCEPT !.kind = "refresh", !.pc = "waiting",
                                       !.on = r.on, !.during = MaxOf(InFlight(fetches)),
                                       !.issued = r.issued])
    /\ UNCHANGED <<store, config, firstTime, refreshPolicies, changePublishers,
                   subscriber, lastRefresh, now>>

\* Faulty variant of resolved: a caller is answered from the snapshot when the
\* promise it waits for is rejected, too.
resolvedAnyway(i) ==
    /\ ops[i].pc = "waiting"
    /\ ops[i].on \in {0} \cup {c \in FetchIds : fetches[c].st \in {"fulfilled", "rejected"}}
    /\ ops' = [ops EXCEPT ![i].pc = "done",
                          ![i].val = IF ops[i].kind = "get" THEN config[ops[i].name] ELSE Absent,
                          ![i].snap = IF ops[i].kind = "get" THEN EmptyMapping ELSE config]
    /\ UNCHANGED <<store, config, firstTime, refreshPolicies, changePublishers,
                   refreshPromise, fetches, subscriber, lastRefresh, now>>

\* The promise a caller waits for is fulfilled and the caller's own callback
\* runs: get reads this.config[name], getAll this.config; refresh(), set() and
\* delete() hand on the value of the refresh promise.
resolved(i) ==
    /\ ops[i].pc = "waiting"
    /\ ops[i].on \in {0} \cup {c \in FetchIds : fetches[c].st = "fulfilled"}
    /\ ops' = [ops EXCEPT ![i].pc = "done",
                          ![i].val = IF ops[i].kind = "get" THEN config[ops[i].name] ELSE Absent,
                          ![i].snap = IF ops[i].kind = "get" THEN EmptyMapping
                                      ELSE IF ops[i].kind = "getAll" \/ ops[i].on = 0 THEN config
                                      ELSE fetches[ops[i].on].val]
    /\ UNCHANGED <<store, config, firstTime, refreshPolicies, changePublishers,
                   refreshPromise, fetches, subscriber, lastRefresh, now>>

\* Faulty variant of rejected: the rejection of the fetch never reaches the
\* callers that wait for it (as with a promise that is settled on success
\* only).
rejectedLost(i) ==
    /\ ops[i].pc = "waiting"
    /\ ops[i].on \in {c \in FetchIds : fetches[c].st = "rejected"}
    /\ FALSE
    /\ UNCHANGED <<store, config, firstTime, refreshPolicies, changePublishers,
                   refreshPromise, fetches, ops, subscriber, lastRefresh, now>>

\* The promise a caller waits for is rejected.
rejected(i) ==
    /\ ops[i].pc = "waiting"
    /\ ops[i].on \in {c \in FetchIds : fetches[c].st = "rejected"}
    /\ ops' = [ops EXCEPT ![i].pc = "failed"]
    /\ UNCHANGED <<store, config, firstTime, refreshPolicies, changePublishers,
                   refreshPromise, fetches, subscriber, lastRefresh, now>>

\* shouldRefresh() called on a StaleRefreshPolicy directly, as its owner may.
shouldRefreshCall ==
    LET a == shouldRefresh("stale", lastRefresh, now) IN
    /\ StampFits(a.lastRefresh)
    /\ lastRefresh' = a.lastRefresh
    /\ UNCHANGED <<store, config, firstTime, refreshPolicies, changePublishers,
                   refreshPromise, fetches, ops, subscriber, now>>

\* ------------------------------------------------------------- set / delete
\* What the handlers of a mutation do that a store, a publisher or a listener
\* sees: the store call of set/delete, the event and the publish() calls of the
\* first callback, the refresh() of the second, and the events of a cycle.
Effect(what, kind, i, name, value, to, c) ==
    [what |-> what, kind |-> kind, op |-> i, name |-> name, value |-> value, to |-> to, c |-> c]

\* set(name, value) and delete(name) up to the call of the store.
mutate(i, kind, name, value) ==
    /\ Free(i)
    /\ ops' = Start(i, [IdleOp EXCEPT !.kind = kind, !.pc = "writing",
                                       !.name = name, !.value = value])
    /\ UNCHANGED <<store, config, firstTime, refreshPolicies, changePublishers,
                   refreshPromise, fetches, subscriber, lastRefresh, now>>

set(i, name, value) == mutate(i, "set", name, value)

delete(i, name) == mutate(i, "delete", name, Absent)

\* _getAffectedProperties(patches): the first path segments, each once, in the
\* order of their first appearance.
RECURSIVE getAffectedProperties(_, _)
getAffectedProperties(patches, n) ==
    IF n = 0 THEN <<>>
    ELSE LET before == getAffectedProperties(patches, n - 1)
             key == patches[n].path[1]
         IN IF \E k \in 1..Len(before) : before[k] = key THEN before
            ELSE Append(before, key)

\* patch.apply on Object.assign({}, this.config): the copy is shallow, so an
\* operation on a nested path also changes the live snapshot while the copy
\* still shares that key's value with it; an operation on a nested path of a
\* value that is no mapping throws.
RECURSIVE applyToCopy(_, _, _, _, _)
applyToCopy(live, copy, shared, patches, n) ==
    IF n > Len(patches) THEN [live |-> live, copy |-> copy, ok |-> TRUE]
    ELSE LET o == patches[n]
             key == o.path[1]
         IN IF Len(o.path) = 1
            THEN applyToCopy(live, applyOperation(copy, o), shared \ {key}, patches, n + 1)
            ELSE IF ~IsObject(copy[key]) THEN [live |-> live, copy |-> copy, ok |-> FALSE]
            ELSE applyToCopy(IF key \in shared THEN applyOperation(live, o) ELSE live,
                             applyOperation(copy, o), shared, patches, n + 1)

\* The set/delete calls apply(patches) derives, one per affected property:
\* delete when the patched copy has no value for it, set otherwise.
applyCalls(patches) ==
    LET w == applyToCopy(config, config, AllKeys, patches, 1)
        affected == getAffectedProperties(patches, Len(patches))
    IN [n \in 1..Len(affected) |->
          [kind |-> IF w.copy[affected[n]] = Absent THEN "delete" ELSE "set",
           name |-> affected[n],
           value |-> w.copy[affected[n]]]]

\* apply(patches): one set or delete per affected property, all started in
\* this turn; the callers' slots are the free ones, lowest first.
apply(patches) ==
    LET w == applyToCopy(config, config, AllKeys, patches, 1)
        calls == applyCalls(patches)
        slots == {j \in OpIds : Finished(j)}
        call(n) == [IdleOp EXCEPT !.kind = calls[n].kind,
                                  !.pc = "writing",
                                  !.name = calls[n].name,
                                  !.value = calls[n].value]
    IN /\ w.ok => Len(calls) <= Cardinality(slots)
       /\ config' = w.live
       /\ ops' = IF ~w.ok THEN ops
                 ELSE [j \in OpIds |->
                         LET n == Cardinality({x \in slots : x <= j}) IN
                         IF j \in slots /\ n <= Len(calls) THEN call(n)
                         ELSE IF Finished(j) THEN IdleOp ELSE ops[j]]
       /\ UNCHANGED <<store, firstTime, refreshPolicies, changePublishers,
                      refreshPromise, fetches, subscriber, lastRefresh, now>>

\* The store calls apply(patches) makes, in order.
applyEffects(patches) ==
    LET calls == applyCalls(patches) IN
    [n \in 1..Len(calls) |-> Effect("store", calls[n].kind, n, calls[n].name, calls[n].value, 0, 0)]

\* Faulty variant of applyResolved: the promise of apply is fulfilled once all
\* derived calls are settled, rejected ones included.
applyResolvedSettled ==
    /\ applying.pc = "waiting"
    /\ \A n \in 1..Len(applying.state) : applying.state[n] # "pending"
    /\ applying' = [applying EXCEPT !.pc = "done"]
    /\ UNCHANGED <<store, config, firstTime, refreshPolicies, changePublishers, refreshPromise,
                   fetches, ops, subscriber, lastRefresh, now, last, lastCall, hist, log>>

\* Q.all over the promises of the derived calls: fulfilled once all of them
\* are, rejected as soon as one of them is.
applyResolved ==
    /\ applying.pc = "waiting"
    /\ \A n \in 1..Len(applying.state) : applying.state[n] = "fulfilled"
    /\ applying' = [applying EXCEPT !.pc = "done"]
    /\ UNCHANGED <<store, config, firstTime, refreshPolicies, changePublishers, refreshPromise,
                   fetches, ops, subscriber, lastRefresh, now, last, lastCall, hist, log>>

applyRejected ==
    /\ applying.pc = "waiting"
    /\ \E n \in 1..Len(applying.state) : applying.state[n] = "rejected"
    /\ applying' = [applying EXCEPT !.pc = "failed", !.failedAt = Len(log)]
    /\ UNCHANGED <<store, config, firstTime, refreshPolicies, changePublishers, refreshPromise,
                   fetches, ops, subscriber, lastRefresh, now, last, lastCall, hist, log>>

\* The store performs the write and fulfils its promise.
storeWriteResolves(i) ==
    /\ ops[i].pc = "writing"
    /\ store' = [store EXCEPT ![ops[i].name] = ops[i].value]
    /\ ops' = [ops EXCEPT ![i].pc = "written"]
    /\ UNCHANGED <<config, firstTime, refreshPolicies, changePublishers, refreshPromise,
                   fetches, subscriber, lastRefresh, now>>

\* Faulty variant of storeWriteRejects: the rejection reaches refresh() too, as
\* with .then(refresh, refresh).
storeWriteRejectsRefreshes(i) ==
    LET r == refresh(refreshPromise, fetches, now) IN
    /\ ops[i].pc = "writing"
    /\ Fits(r)
    /\ refreshPromise' = r.refreshPromise
    /\ fetches' = r.fetches
    /\ ops' = [ops EXCEPT ![i].pc = "failed"]
    /\ UNCHANGED <<store, config, firstTime, refreshPolicies, changePublishers,
                   subscriber, lastRefresh, now>>

\* The store rejects the write: set/delete rejects, nothing else runs.
storeWriteRejects(i) ==
    /\ ops[i].pc = "writing"
    /\ ops' = [ops EXCEPT ![i].pc = "failed"]
    /\ UNCHANGED <<store, config, firstTime, refreshPolicies, changePublishers,
                   refreshPromise, fetches, subscriber, lastRefresh, now>>

\* Faulty variant of refreshSubscriber: without the try/catch what the
\* subscriber's refresh() throws reaches the caller of publish().
refreshSubscriberNoCatch(sub, rp, fs, t) ==
    IF sub.pubsub = Self
    THEN LET r == refresh(rp, fs, t) IN
         IF Fits(r) THEN [refreshPromise |-> r.refreshPromise, fetches |-> r.fetches,
                          fits |-> TRUE, calls |-> 1, threw |-> FALSE]
         ELSE [refreshPromise |-> rp, fetches |-> fs, fits |-> FALSE, calls |-> 1,
               threw |-> FALSE]
    ELSE [refreshPromise |-> rp, fetches |-> fs, fits |-> TRUE,
          calls |-> IF sub.pubsub = Nobody THEN 0 ELSE 1, threw |-> sub.pubsub = Stranger]

\* refreshSubscriber() of the in-memory pub/sub extension: with a subscriber
\* held its refresh() is called, once, in try/catch (calls: the calls made;
\* threw: an exception reached the caller).  The coordinator's refresh() is
\* the one modelled above; another subscriber's refresh() throws, as that of
\* an object without the method does.
refreshSubscriber(sub, rp, fs, t) ==
    IF sub.pubsub = Self
    THEN LET r == refresh(rp, fs, t) IN
         IF Fits(r) THEN [refreshPromise |-> r.refreshPromise, fetches |-> r.fetches,
                          fits |-> TRUE, calls |-> 1, threw |-> FALSE]
         ELSE [refreshPromise |-> rp, fetches |-> fs, fits |-> FALSE, calls |-> 1,
               threw |-> FALSE]
    ELSE [refreshPromise |-> rp, fetches |-> fs, fits |-> TRUE,
          calls |-> IF sub.pubsub = Nobody THEN 0 ELSE 1, threw |-> FALSE]

\* publisher.publish(...) inside try/catch.  The in-memory pub/sub extension
\* calls its subscriber's refresh() synchronously; a bare publisher does
\* nothing to the coordinator, and neither does one that throws.
publish(publisher, sub, rp, fs, t) ==
    IF publisher = "pubsub"
    THEN LET r == refreshSubscriber(sub, rp, fs, t) IN
         [refreshPromise |-> r.refreshPromise, fetches |-> r.fetches, fits |-> r.fits]
    ELSE [refreshPromise |-> rp, fetches |-> fs, fits |-> TRUE]

\* Faulty variant of publishAll: without the try/catch the first publisher that
\* throws ends the forEach.
RECURSIVE publishAllNoCatch(_, _, _, _, _, _)
publishAllNoCatch(publishers, n, sub, rp, fs, t) ==
    IF n > Len(publishers)
    THEN [refreshPromise |-> rp, fetches |-> fs, fits |-> TRUE, called |-> <<>>]
    ELSE LET one == publish(publishers[n], sub, rp, fs, t)
             rest == IF publishers[n] = "thrower"
                     THEN [refreshPromise |-> one.refreshPromise, fetches |-> one.fetches,
                           fits |-> TRUE, called |-> <<>>]
                     ELSE publishAllNoCatch(publishers, n + 1, sub, one.refreshPromise,
                                            one.fetches, t)
         IN [refreshPromise |-> rest.refreshPromise, fetches |-> rest.fetches,
             fits |-> one.fits /\ rest.fits, called |-> <<n>> \o rest.called]

\* this.changePublishers.forEach(publisher => publisher.publish(...)), from
\* the n-th publisher on; called lists the publishers whose publish() ran.
RECURSIVE publishAll(_, _, _, _, _, _)
publishAll(publishers, n, sub, rp, fs, t) ==
    IF n > Len(publishers)
    THEN [refreshPromise |-> rp, fetches |-> fs, fits |-> TRUE, called |-> <<>>]
    ELSE LET one == publish(publishers[n], sub, rp, fs, t)
             rest == publishAll(publishers, n + 1, sub, one.refreshPromise, one.fetches, t)
         IN [refreshPromise |-> rest.refreshPromise, fetches |-> rest.fetches,
             fits |-> one.fits /\ rest.fits, called |-> <<n>> \o rest.called]

\* The first callback of set/delete: the event is emitted and the change
\* publishers are told.
mutateThen(i) ==
    LET r == publishAll(changePublishers, 1, subscriber, refreshPromise, fetches, now) IN
    /\ ops[i].pc = "written"
    /\ r.fits
    /\ refreshPromise' = r.refreshPromise
    /\ fetches' = r.fetches
    /\ ops' = [ops EXCEPT ![i].pc = "published"]
    /\ UNCHANGED <<store, config, firstTime, refreshPolicies, changePublishers,
                   subscriber, lastRefresh, now>>

\* Faulty variant of mutateRefresh: the policies are asked, as a read does.
mutateRefreshIfNeeded(i) ==
    LET r == refreshIfNeeded(FALSE, refreshPolicies, lastRefresh, now, refreshPromise, fetches) IN
    /\ ops[i].pc = "published"
    /\ r.on \in {0} \cup FetchIds
    /\ refreshPromise' = r.refreshPromise
    /\ fetches' = r.fetches
    /\ ops' = [ops EXCEPT ![i].pc = "waiting", ![i].on = r.on,
                          ![i].during = MaxOf(InFlight(fetches)), ![i].issued = r.issued]
    /\ UNCHANGED <<store, config, firstTime, refreshPolicies, changePublishers,
                   subscriber, lastRefresh, now>>

\* Faulty variant of mutateRefresh: the refresh of a mutation uses up the
\* first call, as that of a read does.
mutateRefreshFirst(i) ==
    LET r == refresh(refreshPromise, fetches, now) IN
    /\ ops[i].pc = "published"
    /\ Fits(r)
    /\ firstTime' = FALSE
    /\ refreshPromise' = r.refreshPromise
    /\ fetches' = r.fetches
    /\ ops' = [ops EXCEPT ![i].pc = "waiting", ![i].on = r.on,
                          ![i].during = MaxOf(InFlight(fetches)), ![i].issued = r.issued]
    /\ UNCHANGED <<store, config, refreshPolicies, changePublishers,
                   subscriber, lastRefresh, now>>

\* The second callback of set/delete: .then(this.refresh.bind(self)).
mutateRefresh(i) ==
    LET r == refresh(refreshPromise, fetches, now) IN
    /\ ops[i].pc = "published"
    /\ Fits(r)
    /\ refreshPromise' = r.refreshPromise
    /\ fetches' = r.fetches
    /\ ops' = [ops EXCEPT ![i].pc = "waiting", ![i].on = r.on,
                          ![i].during = MaxOf(InFlight(fetches)), ![i].issued = r.issued]
    /\ UNCHANGED <<store, config, firstTime, refreshPolicies, changePublishers,
                   subscriber, lastRefresh, now>>

\* The effects of the handlers of set/delete and of a refresh cycle.
mutateEffects(i, kind, name, value) == <<Effect("store", kind, i, name, value, 0, 0)>>

mutateThenEffects(i) ==
    LET r == publishAll(changePublishers, 1, subscriber, refreshPromise, fetches, now) IN
    <<Effect("emit", ops[i].kind, i, ops[i].name, ops[i].value, 0, 0)>>
        \o [n \in 1..Len(r.called) |->
              Effect("publish", ops[i].kind, i, ops[i].name, ops[i].value, r.called[n], 0)]

mutateRefreshEffects(i) ==
    <<Effect("refresh", ops[i].kind, i, "", Absent, 0, refresh(refreshPromise, fetches, now).on)>>

refreshThenEffects(c) ==
    LET r == refreshResult(config, fetches[c].data) IN
    [n \in 1..Len(r.events) |-> Effect("emit", r.events[n].name, 0, "", Absent, 0, c)]

\* --------------------------------------------------------------- extensions
\* Faulty variant of subscribe: the subscriber is installed whether or not
\* one is held.
subscribeAgain(e, who, sub, t) ==
    [ok |-> TRUE,
     subscriber |-> IF e = "interval"
                    THEN [sub EXCEPT !.interval = who,
                                     !.timers = Append(@, [to |-> who, on |-> TRUE, at |-> t,
                                                           due |-> t + Period])]
                    ELSE [sub EXCEPT ![e] = who]]

\* subscribe(subscriber) of IntervalRefreshPolicy and of the in-memory pub/sub
\* extension: 'Already subscribed' is thrown (ok = FALSE) when a subscriber is
\* held; otherwise it is kept, and IntervalRefreshPolicy starts a timer.
subscribe(e, who, sub, t) ==
    IF sub[e] # Nobody THEN [ok |-> FALSE, subscriber |-> sub]
    ELSE [ok |-> TRUE,
          subscriber |-> IF e = "interval"
                         THEN [sub EXCEPT !.interval = who,
                                          !.timers = Append(@, [to |-> who, on |-> TRUE, at |-> t,
                                                                due |-> t + Period])]
                         ELSE [sub EXCEPT ![e] = who]]

\* The bound on the timers started.
TimersFit(sub) == Len(sub.timers) <= MaxTimers

\* Faulty variant of withExtension: the extension is filed in both lists
\* whatever it can do.
withExtensionBoth(e) ==
    LET r == IF HasSubscribe(e) THEN subscribe(e, Self, subscriber, now)
             ELSE [ok |-> TRUE, subscriber |-> subscriber]
    IN /\ e \in Extensions
       /\ TimersFit(r.subscriber)
       /\ IF e = "null" \/ ~r.ok
          THEN UNCHANGED <<subscriber, refreshPolicies, changePublishers>>
          ELSE /\ subscriber' = r.subscriber
               /\ refreshPolicies' = Append(refreshPolicies, e)
               /\ changePublishers' = Append(changePublishers, e)
       /\ UNCHANGED <<store, config, firstTime, refreshPromise, fetches, ops, lastRefresh,
                      now>>

\* Faulty variant of withExtension: the extension is filed in the lists
\* before extension.subscribe(this) is called.
withExtensionFilesFirst(e) ==
    LET r == IF HasSubscribe(e) THEN subscribe(e, Self, subscriber, now)
             ELSE [ok |-> TRUE, subscriber |-> subscriber]
    IN /\ e \in Extensions
       /\ TimersFit(r.subscriber)
       /\ IF e = "null"
          THEN UNCHANGED <<subscriber, refreshPolicies, changePublishers>>
          ELSE /\ subscriber' = r.subscriber
               /\ refreshPolicies' = IF HasShouldRefresh(e) THEN Append(refreshPolicies, e)
                                     ELSE refreshPolicies
               /\ changePublishers' = IF HasPublish(e) THEN Append(changePublishers, e)
                                      ELSE changePublishers
       /\ UNCHANGED <<store, config, firstTime, refreshPromise, fetches, ops, lastRefresh,
                      now>>

\* withExtension(extension): extension.subscribe(this) comes first, and when
\* it throws nothing else is done.
withExtension(e) ==
    LET r == IF HasSubscribe(e) THEN subscribe(e, Self, subscriber, now)
             ELSE [ok |-> TRUE, subscriber |-> subscriber]
    IN /\ e \in Extensions
       /\ TimersFit(r.subscriber)
       /\ IF e = "null" \/ ~r.ok
          THEN UNCHANGED <<subscriber, refreshPolicies, changePublishers>>
          ELSE /\ subscriber' = r.subscriber
               /\ refreshPolicies' = IF HasShouldRefresh(e) THEN Append(refreshPolicies, e)
                                     ELSE refreshPolicies
               /\ changePublishers' = IF HasPublish(e) THEN Append(changePublishers, e)
                                      ELSE changePublishers
       /\ UNCHANGED <<store, config, firstTime, refreshPromise, fetches, ops, lastRefresh,
                      now>>

\* subscribe(who) called on a proactive extension directly.
subscribeCall(e, who) ==
    LET r == subscribe(e, who, subscriber, now) IN
    /\ TimersFit(r.subscriber)
    /\ subscriber' = r.subscriber
    /\ UNCHANGED <<store, config, firstTime, refreshPolicies, changePublishers,
                   refreshPromise, fetches, ops, lastRefresh, now>>

\* Timer n of IntervalRefreshPolicy fires: subscriber.refresh() in try/catch,
\* on the subscriber the timer was started for; the next firing is one period on.
tick(n) ==
    LET r == IF subscriber.timers[n].to = Self THEN refresh(refreshPromise, fetches, now)
             ELSE [refreshPromise |-> refreshPromise, fetches |-> fetches, on |-> 1,
                   issued |-> FALSE]
    IN /\ Fits(r)
       /\ refreshPromise' = r.refreshPromise
       /\ fetches' = r.fetches
       /\ subscriber' = [subscriber EXCEPT !.timers[n].due = now + Period]
       /\ UNCHANGED <<store, config, firstTime, refreshPolicies, changePublishers, ops,
                      lastRefresh, now>>

\* Faulty variant of unsubscribe: the refresh in flight is abandoned, too.
unsubscribeCancels ==
    /\ subscriber' = IF Len(subscriber.timers) > 0
                     THEN [subscriber EXCEPT !.interval = Nobody,
                                             !.timers[Len(subscriber.timers)].on = FALSE]
                     ELSE subscriber
    /\ refreshPromise' = 0
    /\ fetches' = [c \in FetchIds |->
                     IF c \in InFlight(fetches) THEN [fetches[c] EXCEPT !.st = "rejected"]
                     ELSE fetches[c]]
    /\ UNCHANGED <<store, config, firstTime, refreshPolicies, changePublishers,
                   ops, lastRefresh, now>>

\* Faulty variant of unsubscribe: the subscriber is dropped and the timer
\* left running.
unsubscribeOnly ==
    /\ subscriber' = IF Len(subscriber.timers) > 0
                     THEN [subscriber EXCEPT !.interval = Nobody]
                     ELSE subscriber
    /\ UNCHANGED <<store, config, firstTime, refreshPolicies, changePublishers,
                   refreshPromise, fetches, ops, lastRefresh, now>>

\* IntervalRefreshPolicy.unsubscribe(): with this.interval set, that timer is
\* cleared and the subscriber dropped; without, nothing is done.
unsubscribe ==
    /\ subscriber' = IF Len(subscriber.timers) > 0
                     THEN [subscriber EXCEPT !.interval = Nobody,
                                             !.timers[Len(subscriber.timers)].on = FALSE]
                     ELSE subscriber
    /\ UNCHANGED <<store, config, firstTime, refreshPolicies, changePublishers,
                   refreshPromise, fetches, ops, lastRefresh, now>>

\* publish() called on the in-memory pub/sub extension by its owner.
publishCall ==
    LET r == publish("pubsub", subscriber, refreshPromise, fetches, now) IN
    /\ r.fits
    /\ refreshPromise' = r.refreshPromise
    /\ fetches' = r.fetches
    /\ UNCHANGED <<store, config, firstTime, refreshPolicies, changePublishers, ops,
                   subscriber, lastRefresh, now>>

\* -------------------------------------------------------------- environment
\* Another writer changes the backing store.
storeChanges(k, val) ==
    /\ store[k] # val
    /\ store' = [store EXCEPT ![k] = val]
    /\ UNCHANGED <<config, firstTime, refreshPolicies, changePublishers, refreshPromise,
                   fetches, ops, subscriber, lastRefresh, now>>

\* Time passes.
advance ==
    /\ now < MaxTime
    /\ now' = now + 1
    /\ UNCHANGED <<store, config, firstTime, refreshPolicies, changePublishers,
                   refreshPromise, fetches, ops, subscriber, lastRefresh>>

\* ----------------------------------------------------------- specifications
\* The coordinator under every interleaving of its operations.  The store
\* holds one key with one primitive value, or nothing: what is fetched matters
\* here only through whether it differs from the snapshot.
CoordKeys == {"a"}
CoordVals == {Prim(1)}
CoordStores == {m \in Mappings(CoordVals, {Absent}) : \A k \in Keys \ CoordKeys : m[k] = Absent}

\* Extensions are attached before the coordinator is used, as in
\* new RefreshingConfig(store).withExtension(...); StaleRefreshPolicy, which
\* needs the clock, is left to SpecStale.
CoordExts == {"null", "always", "interval", "pubsub"}
CoordPatches ==
    {<<o>> : o \in {AddOp(<<k>>, val) : k \in CoordKeys, val \in CoordVals}
                   \cup {RemoveOp(<<k>>) : k \in CoordKeys}}
Fresh == firstTime /\ Used(fetches) = 0 /\ \A i \in OpIds : ops[i].pc = "idle"
\* The bound on the lengths of the two extension lists.
Room(n) == Len(refreshPolicies) < n /\ Len(changePublishers) < n
\* The bound on the timers an extension may start: e is no IntervalRefreshPolicy,
\* or its subscribe() throws, or fewer than n timers were started.
TimerRoom(e, n) == e # "interval" \/ subscriber.interval # Nobody \/ Len(subscriber.timers) < n

Init == InitWith(CoordStores)

\* A step that records nothing in the observers last, lastCall and hist.
Quiet(A) == A /\ UNCHANGED <<hist, last, lastCall, log, applying>>

Next ==
    \/ \E i \in OpIds, name \in CoordKeys \cup {""} : Quiet(get(i, name))
    \/ \E i \in OpIds : Quiet(getAll(i))
    \/ \E i \in OpIds : Quiet(refreshCall(i))
    \/ \E i \in OpIds : Quiet(resolved(i))
    \/ \E i \in OpIds : Quiet(rejected(i))
    \/ \E i \in OpIds, name \in CoordKeys, val \in CoordVals : Quiet(set(i, name, val))
    \/ \E i \in OpIds, name \in CoordKeys : Quiet(delete(i, name))
    \/ \E patches \in CoordPatches : Quiet(apply(patches))
    \/ \E i \in OpIds : Quiet(storeWriteResolves(i))
    \/ \E i \in OpIds : Quiet(storeWriteRejects(i))
    \/ \E i \in OpIds : Quiet(mutateThen(i))
    \/ \E i \in OpIds : Quiet(mutateRefresh(i))
    \/ \E c \in FetchIds : Quiet(storeGetAllResolves(c))
    \/ \E c \in FetchIds : Quiet(storeGetAllRejects(c))
    \/ \E c \in FetchIds : Quiet(refreshThen(c))
    \/ \E e \in CoordExts :
          Fresh /\ Room(CoordMaxExt) /\ TimerRoom(e, CoordMaxExt) /\ Quiet(withExtension(e))
    \/ \E n \in Running(subscriber) : Quiet(tick(n))
    \/ Quiet(unsubscribe)
    \/ Quiet(publishCall)
    \/ \E k \in CoordKeys, val \in CoordVals \cup {Absent} : Quiet(storeChanges(k, val))

Spec == Init /\ [][Next]_vars

\* The policy gate: reads under reactive policies, with direct refresh()
\* calls; every refreshIfNeeded() call is recorded in lastCall, and hist counts
\* the reads and tells whether each started after the ones before it were
\* fulfilled.
callRecord ==
    LET r == refreshIfNeeded(firstTime, refreshPolicies, lastRefresh, now,
                             refreshPromise, fetches)
    IN [made |-> TRUE, first |-> firstTime, policies |-> refreshPolicies,
        asked |-> r.asked, answers |-> r.answers, refreshed |-> r.refreshed,
        issued |-> r.issued, rpBefore |-> refreshPromise, on |-> r.on]

Recorded(A) ==
    /\ hist.reads < MaxReads
    /\ A
    /\ lastCall' = callRecord
    /\ hist' = [hist EXCEPT !.reads = @ + 1,
                            !.sequential = @ /\ \A j \in OpIds : ops[j].pc \in {"idle", "done"}]
    /\ UNCHANGED <<last, log, applying>>

Direct(A) ==
    A /\ hist' = [hist EXCEPT !.direct = TRUE] /\ UNCHANGED <<last, lastCall, log, applying>>

NextPolicy ==
    \/ \E e \in {"always", "never"} :
          Fresh /\ Len(refreshPolicies) < MaxPolicies /\ Quiet(withExtension(e))
    \/ \E i \in OpIds, name \in CoordKeys : Recorded(get(i, name))
    \/ \E i \in OpIds : Recorded(getAll(i))
    \/ \E i \in OpIds : Direct(refreshCall(i))
    \/ \E i \in OpIds : Quiet(resolved(i))
    \/ \E i \in OpIds : Quiet(rejected(i))
    \/ \E c \in FetchIds : Quiet(storeGetAllResolves(c))
    \/ \E c \in FetchIds : Quiet(storeGetAllRejects(c))
    \/ \E c \in FetchIds : Quiet(refreshThen(c))
    \/ \E k \in CoordKeys, val \in CoordVals \cup {Absent} : Quiet(storeChanges(k, val))

SpecPolicy == Init /\ [][NextPolicy]_vars

\* StaleRefreshPolicy as the only extension, reads only, and the clock.
NextStale ==
    \/ Fresh /\ Len(refreshPolicies) = 0 /\ Quiet(withExtension("stale"))
    \/ \E i \in OpIds, name \in CoordKeys : Quiet(get(i, name))
    \/ \E i \in OpIds : Quiet(getAll(i))
    \/ \E i \in OpIds : Quiet(resolved(i))
    \/ \E i \in OpIds : Quiet(rejected(i))
    \/ \E c \in FetchIds : Quiet(storeGetAllResolves(c))
    \/ \E c \in FetchIds : Quiet(storeGetAllRejects(c))
    \/ \E c \in FetchIds : Quiet(refreshThen(c))
    \/ Quiet(advance)

SpecStale == Init /\ [][NextStale]_vars

\* The refresh cycle over stores with nested values and a store key of the
\* reserved name; every completed cycle is recorded in last.
DiffStores ==
    {m \in Mappings(PrimVals \cup ObjVals, {Absent, Prim(1)}) : m["b"] \in {Absent, Prim(1)}}

InitDiff == InitWith(DiffStores)

Cycle(c) ==
    refreshThen(c) /\ last' = cycleRecord(c) /\ UNCHANGED <<hist, lastCall, log, applying>>

NextDiff ==
    \/ Quiet(refreshCall(1))
    \/ Quiet(resolved(1))
    \/ \E c \in FetchIds : Quiet(storeGetAllResolves(c))
    \/ \E c \in FetchIds : Cycle(c)
    \/ \E k \in AllKeys : \E val \in {m[k] : m \in DiffStores} : Quiet(storeChanges(k, val))

SpecDiff == InitDiff /\ [][NextDiff]_vars

\* The refresh cycle over stores that use the reserved name as a key of their
\* own, holding nothing, a primitive or an object.  A coordinator whose own
\* properties were removed (this.store among them) throws on every later
\* call: the behaviour ends there.
EmitterStores ==
    {m \in Mappings(CoordVals, {Absent, Prim(1), Obj(0, 0), Obj(1, 0)}) : m["b"] = Absent}

InitEmitter == InitWith(EmitterStores)

Intact == config[EmitterKey].v = 1

NextEmitter ==
    \/ Intact /\ Quiet(refreshCall(1))
    \/ Intact /\ Quiet(resolved(1))
    \/ \E c \in FetchIds : Intact /\ Quiet(storeGetAllResolves(c))
    \/ \E c \in FetchIds : Intact /\ Cycle(c)
    \/ \E k \in AllKeys : \E val \in {m[k] : m \in EmitterStores} :
          Intact /\ Quiet(storeChanges(k, val))

SpecEmitter == InitEmitter /\ [][NextEmitter]_vars

\* Mutations with change publishers attached: every effect is appended to log;
\* the effects of the calls whose records are dropped are dropped with them.
Logged(A, retired, effects) ==
    /\ A
    /\ log' = SelectSeq(log, LAMBDA e : e.op \notin retired) \o effects
    /\ UNCHANGED <<hist, last, lastCall, applying>>

Over == {j \in OpIds : Finished(j)}
MutateExts == {"never", "publisher", "thrower", "pubsub"}

NextMutate ==
    \/ \E e \in MutateExts : Fresh /\ Room(MaxPublishers) /\ Quiet(withExtension(e))
    \/ \E i \in OpIds, name \in CoordKeys, val \in CoordVals :
          Logged(set(i, name, val), Over, mutateEffects(i, "set", name, val))
    \/ \E i \in OpIds, name \in CoordKeys :
          Logged(delete(i, name), Over, mutateEffects(i, "delete", name, Absent))
    \/ \E i \in OpIds : Quiet(storeWriteResolves(i))
    \/ \E i \in OpIds : Quiet(storeWriteRejects(i))
    \/ \E i \in OpIds : Logged(mutateThen(i), {}, mutateThenEffects(i))
    \/ \E i \in OpIds : Logged(mutateRefresh(i), {}, mutateRefreshEffects(i))
    \/ \E i \in OpIds : Quiet(resolved(i))
    \/ \E i \in OpIds : Quiet(rejected(i))
    \/ \E c \in FetchIds : Quiet(storeGetAllResolves(c))
    \/ \E c \in FetchIds : Quiet(storeGetAllRejects(c))
    \/ \E c \in FetchIds : Logged(refreshThen(c), {}, refreshThenEffects(c))

SpecMutate == Init /\ [][NextMutate]_vars

\* apply(patches) on a populated or empty snapshot, one apply at a time:
\* applying follows the derived calls (state: pending, fulfilled or rejected;
\* wrote: the store performed the write) and the promise apply returned.
ApplyPatches ==
    LET o == {AddOp(<<k>>, Prim(1)) : k \in Keys} \cup {RemoveOp(<<k>>) : k \in Keys}
    IN {<<x>> : x \in o} \cup {<<x, y>> : x \in o, y \in o}

ApplyStores == {m \in Mappings({Prim(1)}, {Absent}) : TRUE}

InitApply == InitWith(ApplyStores)

Settle ==
    [applying EXCEPT
        !.state = [n \in 1..Len(applying.parts) |->
                     IF applying.state[n] # "pending" THEN applying.state[n]
                     ELSE IF ops'[applying.parts[n]].pc = "done" THEN "fulfilled"
                     ELSE IF ops'[applying.parts[n]].pc = "failed" THEN "rejected"
                     ELSE "pending"],
        !.wrote = [n \in 1..Len(applying.parts) |->
                     applying.wrote[n] \/ ops'[applying.parts[n]].pc = "written"]]

Followed(A, retired, effects) ==
    /\ A
    /\ log' = SelectSeq(log, LAMBDA e : e.op \notin retired) \o effects
    /\ applying' = Settle
    /\ UNCHANGED <<hist, last, lastCall>>

ApplyCall(patches) ==
    /\ \A j \in OpIds : Finished(j)
    /\ applying.pc # "waiting"
    /\ apply(patches)
    /\ log' = SelectSeq(log, LAMBDA e : e.op = 0) \o applyEffects(patches)
    /\ applying' = [pc |-> "waiting", patches |-> patches, pre |-> config,
                    post |-> applyToCopy(config, config, AllKeys, patches, 1).copy,
                    calls |-> applyCalls(patches),
                    parts |-> [n \in 1..Len(applyCalls(patches)) |-> n],
                    state |-> [n \in 1..Len(applyCalls(patches)) |-> "pending"],
                    wrote |-> [n \in 1..Len(applyCalls(patches)) |-> FALSE],
                    failedAt |-> 0]
    /\ UNCHANGED <<hist, last, lastCall>>

NextApply ==
    \/ \E patches \in ApplyPatches : ApplyCall(patches)
    \/ applying.pc # "waiting" /\ Followed(getAll(1), Over, <<>>)
    \/ \E i \in OpIds : Followed(storeWriteResolves(i), {}, <<>>)
    \/ \E i \in OpIds : Followed(storeWriteRejects(i), {}, <<>>)
    \/ \E i \in OpIds : Followed(mutateThen(i), {}, mutateThenEffects(i))
    \/ \E i \in OpIds : Followed(mutateRefresh(i), {}, mutateRefreshEffects(i))
    \/ \E i \in OpIds : Followed(resolved(i), {}, <<>>)
    \/ \E i \in OpIds : Followed(rejected(i), {}, <<>>)
    \/ \E c \in FetchIds : Followed(storeGetAllResolves(c), {}, <<>>)
    \/ \E c \in FetchIds : Followed(storeGetAllRejects(c), {}, <<>>)
    \/ \E c \in FetchIds : Followed(refreshThen(c), {}, refreshThenEffects(c))
    \/ applyResolved
    \/ applyRejected

SpecApply == InitApply /\ [][NextApply]_vars

\* Reads, direct refreshes and mutations over a store whose getAll() may be
\* rejected, with the effects logged.
NextFail ==
    \/ \E i \in OpIds, name \in CoordKeys : Logged(get(i, name), Over, <<>>)
    \/ \E i \in OpIds : Logged(getAll(i), Over, <<>>)
    \/ \E i \in OpIds : Logged(refreshCall(i), Over, <<>>)
    \/ \E i \in OpIds, name \in CoordKeys, val \in CoordVals :
          Logged(set(i, name, val), Over, mutateEffects(i, "set", name, val))
    \/ \E i \in OpIds : Quiet(storeWriteResolves(i))
    \/ \E i \in OpIds : Logged(mutateThen(i), {}, mutateThenEffects(i))
    \/ \E i \in OpIds : Logged(mutateRefresh(i), {}, mutateRefreshEffects(i))
    \/ \E i \in OpIds : Quiet(resolved(i))
    \/ \E i \in OpIds : Quiet(rejected(i))
    \/ \E c \in FetchIds : Quiet(storeGetAllResolves(c))
    \/ \E c \in FetchIds : Quiet(storeGetAllRejects(c))
    \/ \E c \in FetchIds : Logged(refreshThen(c), {}, refreshThenEffects(c))

SpecFail == Init /\ [][NextFail]_vars

\* Reads with and without a name under the constant policies: every call is
\* appended to log (a throw, or the read with the promise it waits for), and
\* so are the events of the cycles.
Thrown == Effect("throw", "get", 0, "", Absent, 0, 0)
Count(what) == Cardinality({n \in 1..Len(log) : log[n].what = what})

Throws(A) ==
    /\ Count("throw") < MaxThrows
    /\ A
    /\ log' = Append(log, Thrown)
    /\ UNCHANGED <<hist, last, lastCall, applying>>

Reads(A, kind, name) ==
    /\ Count("read") < MaxReads
    /\ A
    /\ lastCall' = callRecord
    /\ log' = Append(log, Effect("read", kind, 0, name, Absent, 0, callRecord.on))
    /\ UNCHANGED <<hist, last, applying>>

NextName ==
    \/ \E e \in {"always", "never"} :
          Fresh /\ Len(refreshPolicies) < CoordMaxExt /\ Quiet(withExtension(e))
    \/ \E i \in OpIds : Throws(get(i, ""))
    \/ \E i \in OpIds, name \in CoordKeys : Reads(get(i, name), "get", name)
    \/ \E i \in OpIds : Reads(getAll(i), "getAll", "")
    \/ \E i \in OpIds : Quiet(resolved(i))
    \/ \E c \in FetchIds : Quiet(storeGetAllResolves(c))
    \/ \E c \in FetchIds : Logged(refreshThen(c), {}, refreshThenEffects(c))
    \/ \E k \in CoordKeys, val \in CoordVals \cup {Absent} : Quiet(storeChanges(k, val))

SpecName == Init /\ [][NextName]_vars

\* A StaleRefreshPolicy(Duration) on its own: shouldRefresh() calls at times
\* that never decrease, each appended to log with its answer (to: 1 for true)
\* and the time of the call (c).
Asked(A) ==
    /\ Count("ask") < MaxReads
    /\ A
    /\ log' = Append(log, Effect("ask", "stale", 0, "", Absent,
                                 IF shouldRefresh("stale", lastRefresh, now).answer THEN 1 ELSE 0,
                                 now))
    /\ UNCHANGED <<hist, last, lastCall, applying>>

NextAsk ==
    \/ Asked(shouldRefreshCall)
    \/ Quiet(advance)

SpecAsk == Init /\ [][NextAsk]_vars

\* An IntervalRefreshPolicy(Period) and the clock: subscribe() is called with
\* the coordinator (as withExtension does) or with another subscriber, the
\* timers fire when they are due, and every call is appended to log: what was
\* called, the subscriber (kind), the timer (op), the time (to) and the fetch
\* a tick's refresh() waits for (c).
Call(what, who, n, t, c) ==
    [what |-> what, kind |-> who, op |-> n, name |-> "", value |-> Absent, to |-> t, c |-> c]

Subscribes(e, who) ==
    /\ Count("throw") < MaxThrows
    /\ subscribeCall(e, who)
    /\ log' = Append(log, IF subscribe(e, who, subscriber, now).ok
                          THEN Call("subscribe", who, Len(subscriber.timers) + 1, now, 0)
                          ELSE Call("throw", who, 0, now, 0))
    /\ UNCHANGED <<hist, last, lastCall, applying>>

Unsubscribes ==
    /\ Count("unsubscribe") < MaxCalls
    /\ unsubscribe
    /\ log' = Append(log, Call("unsubscribe", subscriber.interval, Len(subscriber.timers), now, 0))
    /\ UNCHANGED <<hist, last, lastCall, applying>>

Due == {n \in Running(subscriber) : subscriber.timers[n].due = now}

Ticks(n) ==
    /\ tick(n)
    /\ log' = Append(log, Call("tick", subscriber.timers[n].to, n, now,
                               IF subscriber.timers[n].to = Self
                               THEN refresh(refreshPromise, fetches, now).on ELSE 0))
    /\ UNCHANGED <<hist, last, lastCall, applying>>

NextInterval ==
    \/ \E who \in {Self, Stranger} : Subscribes("interval", who)
    \/ Unsubscribes
    \/ \E n \in Due : Ticks(n)
    \/ Due = {} /\ Quiet(advance)
    \/ \E c \in FetchIds : Quiet(storeGetAllResolves(c))
    \/ \E c \in FetchIds : Logged(refreshThen(c), {}, refreshThenEffects(c))

SpecInterval == Init /\ [][NextInterval]_vars

\* The coordinator subscribed to an IntervalRefreshPolicy(Period) over a store
\* that answers every getAll(): a response that is due arrives, and the
\* callback chained on a response runs.
NextInFlight ==
    \/ TimerRoom("interval", CoordMaxExt) /\ Subscribes("interval", Self)
    \/ Count("unsubscribe") < CoordMaxExt /\ Unsubscribes
    \/ \E n \in Due : Ticks(n)
    \/ Due = {} /\ Quiet(advance)
    \/ \E c \in FetchIds : Quiet(storeGetAllResolves(c))
    \/ \E c \in FetchIds : Logged(refreshThen(c), {}, refreshThenEffects(c))

SpecInFlight ==
    /\ Init
    /\ [][NextInFlight]_vars
    /\ WF_vars(\E c \in FetchIds : Quiet(storeGetAllResolves(c)))
    /\ WF_vars(\E c \in FetchIds : Logged(refreshThen(c), {}, refreshThenEffects(c)))

\* The in-memory pub/sub extension on its own: subscribe() with the
\* coordinator or with another object, and publish() by its owner, recorded
\* with the subscriber held (kind), the refresh() calls made (op) and the
\* fetch the coordinator's refresh promise waits for afterwards (c).
Publishes ==
    LET r == refreshSubscriber(subscriber, refreshPromise, fetches, now) IN
    /\ Count("publish") < MaxCalls
    /\ publishCall
    /\ log' = Append(log, Call(IF r.threw THEN "raise" ELSE "publish", subscriber.pubsub,
                               r.calls, now, r.refreshPromise))
    /\ UNCHANGED <<hist, last, lastCall, applying>>

NextPubSub ==
    \/ \E who \in {Self, Stranger} : Subscribes("pubsub", who)
    \/ Publishes
    \/ \E c \in FetchIds : Quiet(storeGetAllResolves(c))
    \/ \E c \in FetchIds : Logged(refreshThen(c), {}, refreshThenEffects(c))
    \/ \E k \in CoordKeys, val \in CoordVals \cup {Absent} : Quiet(storeChanges(k, val))

SpecPubSub == Init /\ [][NextPubSub]_vars

\* withExtension at any time, with every kind of extension, on a coordinator
\* that is read; the proactive extensions may hold another subscriber already.
\* A call is recorded with the extension (kind), the subscribe() calls it made
\* (op) and what it returned (name), or as a throw.
withExtensionRecord(e) ==
    IF e # "null" /\ HasSubscribe(e) /\ ~subscribe(e, Self, subscriber, now).ok
    THEN Call("throw", e, 1, now, 0)
    ELSE [Call("extend", e, IF e # "null" /\ HasSubscribe(e) THEN 1 ELSE 0, now, 0)
             EXCEPT !.name = Self]

Extends(e) ==
    /\ Count("extend") < MaxCalls
    /\ Count("throw") < MaxThrows
    /\ Room(MaxPolicies)
    /\ withExtension(e)
    /\ log' = Append(log, withExtensionRecord(e))
    /\ UNCHANGED <<hist, last, lastCall, applying>>

NextExtend ==
    \/ \E e \in Extensions : Extends(e)
    \/ \E e \in {"interval", "pubsub"} : log = <<>> /\ Subscribes(e, Stranger)
    \/ Quiet(getAll(1))
    \/ Quiet(resolved(1))
    \/ \E c \in FetchIds : Quiet(storeGetAllResolves(c))
    \/ \E c \in FetchIds : Quiet(refreshThen(c))

SpecExtend == Init /\ [][NextExtend]_vars

\* Listeners for 'changed', registered on the coordinator or on the channel
\* found under the reserved key of the snapshot getAll() returned (the live
\* this.config).  The store may use the reserved name as a key of its own,
\* holding a primitive.  log holds the snapshots handed out, the registrations
\* (kind: where; op: the listener; name: the object registered on), the
\* events emitted, and what each listener received.
ListenStores == {m \in Mappings(CoordVals, {Absent, Prim(1)}) : m["b"] = Absent}

InitListen == InitWith(ListenStores)

Receipt(listener, via, c, cfg, patches) ==
    [what |-> "receive", kind |-> via, op |-> listener, name |-> "changed", value |-> Absent,
     to |-> 0, c |-> c, config |-> cfg, patch |-> patches]

\* The object a listener registers on: the coordinator itself, or whatever
\* the snapshot holds under the reserved key (a primitive has no on()).
Channel(via) ==
    IF via = "coordinator" \/ config[EmitterKey].kind = "emitter" THEN Self ELSE Nobody

Listens(via) ==
    /\ Count("on") + Count("throw") < MaxListeners
    /\ via = "snapshot" => Count("snapshot") > 0
    /\ log' = Append(log, IF Channel(via) = Self
                          THEN [Call("on", via, Count("on") + 1, now, 0) EXCEPT !.name = Self]
                          ELSE Call("throw", via, 0, now, 0))
    /\ UNCHANGED <<store, config, firstTime, refreshPolicies, changePublishers, refreshPromise,
                   fetches, ops, subscriber, lastRefresh, now, hist, last, lastCall, applying>>

\* self.emit(name, ...): every listener registered on the coordinator for
\* 'changed' is called, in the order of registration, with the arguments of
\* the emit.
RECURSIVE deliveries(_, _, _)
deliveries(c, events, n) ==
    IF n > Len(events) THEN <<>>
    ELSE LET listeners == SelectSeq(log, LAMBDA e : e.what = "on" /\ e.name = Self)
             received == IF events[n].name # "changed" THEN <<>>
                         ELSE [k \in 1..Len(listeners) |->
                                 Receipt(listeners[k].op, listeners[k].kind, c,
                                         events[n].config, events[n].patch)]
         IN <<Effect("emit", events[n].name, 0, "", Absent, 0, c)>> \o received
                \o deliveries(c, events, n + 1)

Delivers(c) ==
    /\ refreshThen(c)
    /\ last' = cycleRecord(c)
    /\ log' = log \o deliveries(c, cycleRecord(c).events, 1)
    /\ UNCHANGED <<hist, lastCall, applying>>

Hands(i) ==
    /\ ops[i].kind = "getAll"
    /\ resolved(i)
    /\ log' = IF Count("snapshot") = 0 THEN Append(log, Call("snapshot", "getAll", 0, now, 0))
              ELSE log
    /\ UNCHANGED <<hist, last, lastCall, applying>>

NextListen ==
    \/ Fresh /\ refreshPolicies = <<>> /\ log = <<>> /\ Quiet(withExtension("always"))
    \/ \E i \in OpIds : refreshPolicies # <<>> /\ Quiet(getAll(i))
    \/ \E i \in OpIds : Hands(i)
    \/ \E via \in {"coordinator", "snapshot"} : Listens(via)
    \/ \E c \in FetchIds : Quiet(storeGetAllResolves(c))
    \/ \E c \in FetchIds : Delivers(c)
    \/ \E k \in CoordKeys \cup {EmitterKey} : \E val \in {m[k] : m \in ListenStores} :
          Quiet(storeChanges(k, val))

SpecListen == InitListen /\ [][NextListen]_vars

\* Listeners that call refresh() from inside 'changed' or 'refresh': the
\* registrations are recorded in log (kind: the event), and so is every
\* refresh() call a listener makes (kind: the event; op: the cycle emitting
\* it; to: 1 when the call made a store.getAll() call; c: the fetch the
\* promise it returned waits for).
Listening == {log[n].kind : n \in {k \in 1..Len(log) : log[k].what = "on"}}

Hooks(ev) ==
    /\ ev \notin Listening
    /\ log' = Append(log, Call("on", ev, 0, now, 0))
    /\ UNCHANGED <<store, config, firstTime, refreshPolicies, changePublishers, refreshPromise,
                   fetches, ops, subscriber, lastRefresh, now, hist, last, lastCall, applying>>

Reenters(c) ==
    LET e == emitToCallers(cycleRecord(c).events, 1, Listening, 0, fetches, now) IN
    /\ refreshThenListened(c, Listening)
    /\ last' = cycleRecord(c)
    /\ log' = log \o refreshThenEffects(c)
                  \o [n \in 1..Len(e.calls) |->
                        Call("reenter", e.calls[n].event, c, IF e.calls[n].issued THEN 1 ELSE 0,
                             e.calls[n].on)]
    /\ UNCHANGED <<hist, lastCall, applying>>

NextReenter ==
    \/ \E ev \in {"changed", "refresh"} : Hooks(ev)
    \/ \E i \in OpIds : Quiet(refreshCall(i))
    \/ \E i \in OpIds : Quiet(getAll(i))
    \/ \E i \in OpIds : Quiet(resolved(i))
    \/ \E c \in FetchIds : Quiet(storeGetAllResolves(c))
    \/ \E c \in FetchIds : Reenters(c)
    \/ \E k \in CoordKeys, val \in CoordVals \cup {Absent} : Quiet(storeChanges(k, val))

SpecReenter == Init /\ [][NextReenter]_vars

\* Reads and mutations (one at a time) under the constant policies: every
\* read is appended to log with the promise it waits for and recorded in
\* lastCall, and so are the first mutations that are fulfilled (what: "done";
\* kind: the call; c: the fetch it waited for).
Settles(i) ==
    /\ resolved(i)
    /\ log' = IF ops[i].kind \in {"set", "delete"} /\ Count("done") < MaxCalls
              THEN Append(log, Effect("done", ops[i].kind, i, ops[i].name, Absent, 0, ops[i].on))
              ELSE log
    /\ UNCHANGED <<hist, last, lastCall, applying>>

Writing == {j \in OpIds : ops[j].kind \in {"set", "delete"} /\ ~Finished(j)}

NextFirst ==
    \/ \E e \in {"always", "never"} :
          Fresh /\ Len(refreshPolicies) < CoordMaxExt /\ Quiet(withExtension(e))
    \/ \E i \in OpIds, name \in CoordKeys : Reads(get(i, name), "get", name)
    \/ \E i \in OpIds : Reads(getAll(i), "getAll", "")
    \/ \E i \in OpIds, name \in CoordKeys, val \in CoordVals :
          Writing = {} /\ Quiet(set(i, name, val))
    \/ \E i \in OpIds, name \in CoordKeys : Writing = {} /\ Quiet(delete(i, name))
    \/ \E i \in OpIds : Quiet(storeWriteResolves(i))
    \/ \E i \in OpIds : Quiet(mutateThen(i))
    \/ \E i \in OpIds : Quiet(mutateRefresh(i))
    \/ \E i \in OpIds : Settles(i)
    \/ \E c \in FetchIds : Quiet(storeGetAllResolves(c))
    \/ \E c \in FetchIds : Quiet(refreshThen(c))

SpecFirst == Init /\ [][NextFirst]_vars

\* Every operation of the coordinator over a store that holds an object under
\* key a, with apply(patches) given paths into that object as well.
NestedStores ==
    {m \in Mappings({Prim(1), Obj(1, 0), Obj(1, 1)}, {Absent}) : m["b"] = Absent}

NestedPatches ==
    {<<o>> : o \in {ReplaceOp(<<"a", "s">>, Prim(2)), AddOp(<<"a", "t">>, Prim(2)),
                    RemoveOp(<<"a", "s">>), AddOp(<<"a">>, Prim(1)), RemoveOp(<<"a">>)}}

InitNested == InitWith(NestedStores)

NextNested ==
    \/ \E e \in {"never", "publisher"} : Fresh /\ Room(CoordMaxExt) /\ Quiet(withExtension(e))
    \/ \E i \in OpIds : Quiet(get(i, "a"))
    \/ \E i \in OpIds : Quiet(getAll(i))
    \/ \E i \in OpIds : Quiet(set(i, "a", Prim(1)))
    \/ \E i \in OpIds : Quiet(delete(i, "a"))
    \/ \E patches \in NestedPatches : Quiet(apply(patches))
    \/ \E i \in OpIds : Quiet(storeWriteResolves(i))
    \/ \E i \in OpIds : Quiet(mutateThen(i))
    \/ \E i \in OpIds : Quiet(mutateRefresh(i))
    \/ \E i \in OpIds : Quiet(resolved(i))
    \/ \E c \in FetchIds : Quiet(storeGetAllResolves(c))
    \/ \E c \in FetchIds : Quiet(refreshThen(c))

SpecNested == InitNested /\ [][NextNested]_vars

\* The identity of the snapshot: objects are numbered, the one the constructor
\* makes is object 1.  log holds, for every cycle, the object this.config
\* named before (to) and after (c) and what the object named before was left
\* holding (config), and for every getAll() and refresh() call fulfilled the
\* object it was fulfilled with (c).
ConstructorObject == 1
ObjectsMade == MaxOf({ConstructorObject} \cup {log[n].c : n \in {k \in 1..Len(log) : log[k].what = "object"}})
configObject ==
    LET cycles == {n \in 1..Len(log) : log[n].what = "object"} IN
    IF cycles = {} THEN ConstructorObject ELSE log[MaxOf(cycles)].c

Keeps(c) ==
    LET after == snapshotObject(configObject, ObjectsMade) IN
    /\ refreshThen(c)
    /\ last' = cycleRecord(c)
    /\ log' = Append(log, [what |-> "object", kind |-> "config", op |-> c, name |-> "",
                           value |-> Absent, to |-> configObject, c |-> after,
                           config |-> IF after = configObject THEN config' ELSE config])
    /\ UNCHANGED <<hist, lastCall, applying>>

HandsObject(i) ==
    /\ ops[i].kind \in {"getAll", "refresh"}
    /\ Count("handed") < MaxCalls
    /\ resolved(i)
    /\ log' = Append(log, [what |-> "handed", kind |-> ops[i].kind, op |-> i, name |-> "",
                           value |-> Absent, to |-> 0, c |-> configObject,
                           config |-> config])
    /\ UNCHANGED <<hist, last, lastCall, applying>>

NextIdentity ==
    \/ Fresh /\ refreshPolicies = <<>> /\ Quiet(withExtension("always"))
    \/ \E i \in OpIds : Quiet(getAll(i))
    \/ \E i \in OpIds : Quiet(refreshCall(i))
    \/ \E i \in OpIds : HandsObject(i)
    \/ \E c \in FetchIds : Quiet(storeGetAllResolves(c))
    \/ \E c \in FetchIds : Keeps(c)
    \/ \E k \in CoordKeys, val \in CoordVals \cup {Absent} : Quiet(storeChanges(k, val))

SpecIdentity == Init /\ [][NextIdentity]_vars

\* Mutations, one after the other, on a coordinator with the in-memory
\* pub/sub extension attached (alone, or before or after another publisher)
\* and nothing else going on: the effects of the handlers and of the cycles
\* are appended to log.
NextPublish ==
    \/ \E e \in {"pubsub", "publisher"} :
          Fresh /\ Room(MaxPublishers) /\ Quiet(withExtension(e))
    \/ \E i \in OpIds, name \in CoordKeys, val \in CoordVals :
          /\ subscriber.pubsub = Self /\ Writing = {} /\ Count("store") < MaxCalls
          /\ Logged(set(i, name, val), {}, mutateEffects(i, "set", name, val))
    \/ \E i \in OpIds, name \in CoordKeys :
          /\ subscriber.pubsub = Self /\ Writing = {} /\ Count("store") < MaxCalls
          /\ Logged(delete(i, name), {}, mutateEffects(i, "delete", name, Absent))
    \/ \E i \in OpIds : Quiet(storeWriteResolves(i))
    \/ \E i \in OpIds : Logged(mutateThen(i), {}, mutateThenEffects(i))
    \/ \E i \in OpIds : Logged(mutateRefresh(i), {}, mutateRefreshEffects(i))
    \/ \E i \in OpIds : Settles(i)
    \/ \E c \in FetchIds : Quiet(storeGetAllResolves(c))
    \/ \E c \in FetchIds : Logged(refreshThen(c), {}, refreshThenEffects(c))

SpecPublish == Init /\ [][NextPublish]_vars

\* Mutations, one after the other, with publishers attached and direct
\* refresh() calls, over a store whose calls may be rejected; log holds the
\* effects of the handlers and of the cycles since the latest mutation was
\* called.
NextWriteFail ==
    \/ \E e \in {"publisher", "thrower", "pubsub"} :
          Fresh /\ Room(MaxPublishers) /\ Quiet(withExtension(e))
    \/ \E i \in OpIds, name \in CoordKeys, val \in CoordVals :
          /\ Writing = {}
          /\ Logged(set(i, name, val), {0} \cup OpIds, mutateEffects(i, "set", name, val))
    \/ \E i \in OpIds, name \in CoordKeys :
          /\ Writing = {}
          /\ Logged(delete(i, name), {0} \cup OpIds, mutateEffects(i, "delete", name, Absent))
    \/ \E i \in OpIds : Quiet(refreshCall(i))
    \/ \E i \in OpIds : Quiet(storeWriteResolves(i))
    \/ \E i \in OpIds : Quiet(storeWriteRejects(i))
    \/ \E i \in OpIds : Logged(mutateThen(i), {}, mutateThenEffects(i))
    \/ \E i \in OpIds : Logged(mutateRefresh(i), {}, mutateRefreshEffects(i))
    \/ \E i \in OpIds : Quiet(resolved(i))
    \/ \E i \in OpIds : Quiet(rejected(i))
    \/ \E c \in FetchIds : Quiet(storeGetAllResolves(c))
    \/ \E c \in FetchIds : Quiet(storeGetAllRejects(c))
    \/ \E c \in FetchIds : Logged(refreshThen(c), {}, refreshThenEffects(c))

SpecWriteFail == Init /\ [][NextWriteFail]_vars

\* Every call of the coordinator over a store whose calls all settle, one way
\* or the other, under the event loop, which runs every callback that is
\* queued.  The calls made are counted in log, and a call is made only while
\* the fetches it may need are within the bound (n: the fetches the call may
\* need) and no apply() is under way.
Budget(n) ==
    /\ Count("call") < MaxCalls
    /\ applying.pc # "waiting"
    /\ Used(fetches) + Cardinality({j \in OpIds : ops[j].pc \in {"writing", "written", "published"}})
          + n <= MaxFetches

Live(A) == Followed(A, {}, <<>>)
Called(A) == Followed(A, {}, <<Call("call", "", 0, 0, 0)>>)

AppliesLive(patches) ==
    /\ \A j \in OpIds : Finished(j)
    /\ applying.pc # "waiting"
    /\ apply(patches)
    /\ log' = Append(log, Call("call", "", 0, 0, 0))
    /\ applying' = [NoApply EXCEPT !.pc = "waiting",
                                   !.parts = [n \in 1..Len(applyCalls(patches)) |-> n],
                                   !.state = [n \in 1..Len(applyCalls(patches)) |-> "pending"],
                                   !.wrote = [n \in 1..Len(applyCalls(patches)) |-> FALSE]]
    /\ UNCHANGED <<hist, last, lastCall>>

NextLive ==
    \/ \E i \in OpIds : Budget(1) /\ Called(get(i, "a"))
    \/ \E i \in OpIds : Budget(1) /\ Called(getAll(i))
    \/ \E i \in OpIds : Budget(1) /\ Called(refreshCall(i))
    \/ \E i \in OpIds : Budget(1) /\ Called(set(i, "a", Prim(1)))
    \/ \E i \in OpIds : Budget(1) /\ Called(delete(i, "a"))
    \/ \E patches \in CoordPatches : Budget(Len(applyCalls(patches))) /\ AppliesLive(patches)
    \/ \E i \in OpIds : Live(storeWriteResolves(i))
    \/ \E i \in OpIds : Live(storeWriteRejects(i))
    \/ \E i \in OpIds : Live(mutateThen(i))
    \/ \E i \in OpIds : Live(mutateRefresh(i))
    \/ \E i \in OpIds : Live(resolved(i))
    \/ \E i \in OpIds : Live(rejected(i))
    \/ \E c \in FetchIds : Live(storeGetAllResolves(c))
    \/ \E c \in FetchIds : Live(storeGetAllRejects(c))
    \/ \E c \in FetchIds : Live(refreshThen(c))
    \/ applyResolved
    \/ applyRejected

SpecLive ==
    /\ Init
    /\ [][NextLive]_vars
    /\ \A c \in FetchIds :
          WF_vars(Live(storeGetAllResolves(c)) \/ Live(storeGetAllRejects(c)))
    /\ \A i \in OpIds :
          WF_vars(Live(storeWriteResolves(i)) \/ Live(storeWriteRejects(i)))
    /\ \A c \in FetchIds : WF_vars(Live(refreshThen(c)))
    /\ \A i \in OpIds : WF_vars(Live(mutateThen(i)))
    /\ \A i \in OpIds : WF_vars(Live(mutateRefresh(i)))
    /\ \A i \in OpIds : WF_vars(Live(resolved(i)))
    /\ \A i \in OpIds : WF_vars(Live(rejected(i)))
    /\ WF_vars(applyResolved)
    /\ WF_vars(applyRejected)

\* ------------------------------------------------------------------- claims
Restrict(m) == [k \in Keys |-> m[k]]

\* C1: at most one store.getAll() call is outstanding (issued and not yet
\* settled) at any instant, under every interleaving of get, getAll, set,
\* delete, direct refresh() calls, interval ticks and publisher-triggered
\* refreshes.
AtMostOneOutstandingFetch == Cardinality(Outstanding(fetches)) <= 1

\* C1 witness: a refresh was asked for while a fetch was in flight, and one
\* fetch is outstanding.
RefreshAskedDuringFetch ==
    \E i \in OpIds :
        /\ ops[i].kind \in {"refresh", "set", "delete", "getAll"}
        /\ ops[i].pc = "waiting"
        /\ ops[i].during # 0
        /\ ops[i].on = ops[i].during
        /\ Cardinality(Outstanding(fetches)) = 1

\* C2: refresh() calls made while a fetch is in flight call store.getAll() not
\* once more: each gets the promise of that fetch, and they and the caller that
\* started the fetch are resolved with the identical snapshot, the result of
\* that one fetch.
CoalescedRefreshes ==
    /\ \A i \in OpIds :
        (ops[i].kind = "refresh" /\ ops[i].pc # "idle" /\ ops[i].during # 0)
            => (~ops[i].issued /\ ops[i].on = ops[i].during)
    /\ \A i, j \in OpIds :
        (/\ ops[i].kind = "refresh" /\ ops[j].kind = "refresh"
         /\ ops[i].pc = "done" /\ ops[j].pc = "done"
         /\ ops[i].on # 0
         /\ ops[j].during = ops[i].on \/ ops[j].on = ops[i].on)
            => /\ ops[i].snap = ops[j].snap
               /\ Restrict(ops[i].snap) = Restrict(fetches[ops[i].on].data)

\* C2 witness: the caller that started a fetch and a caller that called
\* refresh() while it was in flight are both resolved.
CoalescedCallersResolved ==
    \E i, j \in OpIds :
        /\ i # j
        /\ ops[i].kind = "refresh" /\ ops[j].kind = "refresh"
        /\ ops[i].pc = "done" /\ ops[j].pc = "done"
        /\ ops[i].issued
        /\ ops[j].during = ops[i].on

\* C3 (as claimed): a caller of refreshIfNeeded() (through get/getAll) that
\* calls while a fetch is in flight is resolved only after that fetch has
\* completed and its result has been applied, whatever the policies answer.
ReadsWaitForFetchInFlight ==
    \A i \in OpIds :
        (ops[i].kind \in {"get", "getAll"} /\ ops[i].pc = "done" /\ ops[i].during # 0)
            => fetches[ops[i].during].st = "fulfilled"

\* C3 witness of the case: a read called during a fetch is resolved.
ReadDuringFetchResolved ==
    \E i \in OpIds :
        ops[i].kind \in {"get", "getAll"} /\ ops[i].pc = "done" /\ ops[i].during # 0

\* C4 (as claimed): the first get/getAll calls store.getAll() exactly once,
\* whatever policies are attached, and consults no policy.
FirstReadFetchesOnce ==
    (lastCall.made /\ lastCall.first) => (lastCall.issued /\ lastCall.asked = <<>>)

\* C4 (amended): the first get/getAll consults no policy and always invokes
\* refresh(): it calls store.getAll() exactly once when no refresh promise is
\* pending, and attaches to the pending promise without a call otherwise.
FirstReadRefreshes ==
    (lastCall.made /\ lastCall.first)
        => /\ lastCall.asked = <<>>
           /\ lastCall.refreshed
           /\ lastCall.issued <=> lastCall.rpBefore = 0
           /\ lastCall.rpBefore # 0 => lastCall.on = lastCall.rpBefore
           /\ lastCall.on # 0

\* C4 witness: a first read made with policies attached.
FirstReadWithPolicies ==
    lastCall.made /\ lastCall.first /\ Len(lastCall.policies) = MaxPolicies /\ lastCall.issued

\* C5: a refreshIfNeeded() call after the first asks the policies in
\* registration order and stops at the first that answers true; refresh() is
\* invoked iff one answered true; when all answer false the snapshot is
\* returned and store.getAll() is not called.
PoliciesAskedInOrder ==
    (lastCall.made /\ ~lastCall.first)
        => LET n == Len(lastCall.asked) IN
           /\ n <= Len(lastCall.policies)
           /\ Len(lastCall.answers) = n
           /\ \A k \in 1..n : lastCall.asked[k] = k
           /\ \A k \in 1..n : lastCall.answers[k] = (lastCall.policies[k] = "always")
           /\ \A k \in 1..n : lastCall.answers[k] => k = n
           /\ lastCall.refreshed <=> (\E k \in 1..n : lastCall.answers[k])
           /\ lastCall.refreshed => lastCall.on # 0
           /\ ~lastCall.refreshed
                => (n = Len(lastCall.policies) /\ ~lastCall.issued /\ lastCall.on = 0)

\* C5 witness: a later call stopped at a true answer with a policy left unasked.
PolicyLeftUnasked ==
    /\ lastCall.made /\ ~lastCall.first
    /\ Len(lastCall.asked) < Len(lastCall.policies)
    /\ lastCall.refreshed

\* The attached policies are all NeverRefreshPolicy / include an AlwaysRefreshPolicy.
OnlyNever == \A n \in 1..Len(refreshPolicies) : refreshPolicies[n] = "never"
SomeAlways == \E n \in 1..Len(refreshPolicies) : refreshPolicies[n] = "always"

\* C6: with only NeverRefreshPolicy (or no policy) and no direct refresh,
\* sequential reads cause exactly one store.getAll() call in total; with
\* AlwaysRefreshPolicy attached, k sequential reads cause exactly k calls.
PolicyGating ==
    (~hist.direct /\ hist.sequential)
        => /\ (OnlyNever /\ hist.reads >= 1) => Used(fetches) = 1
           /\ SomeAlways => Used(fetches) = hist.reads

\* C6 witnesses: several sequential reads under each of the two policies.
SequentialReadsGated ==
    /\ ~hist.direct /\ hist.sequential
    /\ hist.reads = MaxFetches
    /\ SomeAlways
    /\ \A j \in OpIds : ops[j].pc \in {"idle", "done"}

\* C7 (as claimed): with StaleRefreshPolicy(Duration) as the only extension
\* and reads only, any two store.getAll() calls are more than Duration apart.
StaleSpacing ==
    refreshPolicies = <<"stale">>
        => \A c, d \in FetchIds :
              (c < d /\ fetches[d].st # "unused") => fetches[d].at - fetches[c].at > Duration

\* The patch handed to the 'changed' listeners in the latest cycle, and the
\* operations of it on one top-level key.
Emitted(name) == {n \in 1..Len(last.events) : last.events[n].name = name}
ChangedPatch == IF Emitted("changed") = {} THEN <<>>
                ELSE last.events[CHOOSE n \in Emitted("changed") : TRUE].patch
OpsOn(patches, k) == {n \in 1..Len(patches) : patches[n].path[1] = k}
\* The computed patch without the entries of the reserved key.
Filtered(patches) == {n \in 1..Len(patches) : patches[n].path # <<EmitterKey>>}

\* C8: in a completed cycle 'changed' is emitted iff the computed patch
\* without the reserved key's own entry is non-empty; 'refresh' is emitted in
\* every completed cycle; a cycle with an empty filtered patch leaves the
\* snapshot as it was.
ChangedIffPatch ==
    last.c # 0
        => LET computed == compare(last.pre, last.fetched) IN
           /\ Emitted("changed") # {} <=> Filtered(computed) # {}
           /\ Cardinality(Emitted("changed")) <= 1
           /\ Cardinality(Emitted("refresh")) = 1
           /\ Filtered(computed) = {} => fetches[last.c].val = last.pre

\* C8 witnesses: a cycle with an empty filtered patch after one with changes.
QuietCycle ==
    /\ last.c > 1
    /\ Emitted("changed") = {}
    /\ Emitted("refresh") # {}
    /\ Restrict(last.pre) # Restrict(EmptyMapping)

\* The operation on top-level key k that the latest cycle's mappings call for.
TopLevelOp(k) ==
    IF last.pre[k] = last.fetched[k] THEN {}
    ELSE IF last.pre[k] = Absent THEN {AddOp(<<k>>, last.fetched[k])}
    ELSE IF last.fetched[k] = Absent THEN {RemoveOp(<<k>>)}
    ELSE {ReplaceOp(<<k>>, last.fetched[k])}

MemberOp(k, m) ==
    LET o == Member(last.pre[k], m)
        f == Member(last.fetched[k], m) IN
    IF o = f THEN {}
    ELSE IF o = 0 THEN {AddOp(<<k, m>>, Prim(f))}
    ELSE IF f = 0 THEN {RemoveOp(<<k, m>>)}
    ELSE {ReplaceOp(<<k, m>>, Prim(f))}

SubKeys == {SubOrder[n] : n \in 1..Len(SubOrder)}
ExpectedOps(k) ==
    IF IsObject(last.pre[k]) /\ IsObject(last.fetched[k])
    THEN UNION {MemberOp(k, m) : m \in SubKeys}
    ELSE TopLevelOp(k)

ReservedKeyKept ==
    /\ config[EmitterKey] = EmitterRef
    /\ last.c # 0 => OpsOn(ChangedPatch, EmitterKey) = {}

\* The effects logged for caller i, and the mutations among the callers.
Of(i) == SelectSeq(log, LAMBDA e : e.op = i)
Mutations == {i \in OpIds : ops[i].kind \in {"set", "delete"}}
\* The write of mutation i succeeded and its first callback ran; its second ran.
Published(i) == ops[i].pc \in {"published", "waiting", "done"} \/ (ops[i].pc = "failed" /\ ops[i].on # 0)
Refreshed(i) == ops[i].pc \in {"waiting", "done"} \/ (ops[i].pc = "failed" /\ ops[i].on # 0)
UpToPublish(i) ==
    <<Effect("store", ops[i].kind, i, ops[i].name, ops[i].value, 0, 0),
      Effect("emit", ops[i].kind, i, ops[i].name, ops[i].value, 0, 0)>>
        \o [n \in 1..Len(changePublishers) |->
              Effect("publish", ops[i].kind, i, ops[i].name, ops[i].value, n, 0)]

\* C12: a set/delete whose store write succeeded has called store.set /
\* store.delete once with its arguments, emitted one 'set'/'delete' event,
\* called publish once on every registered change publisher, and then invoked
\* refresh() whatever policies are attached; publishers are called by
\* set/delete only, never by a refresh cycle.
MutationEffects ==
    /\ \A i \in Mutations :
          /\ (Published(i) /\ ~Refreshed(i)) => Of(i) = UpToPublish(i)
          /\ Refreshed(i)
                => /\ ops[i].on # 0
                   /\ Of(i) = UpToPublish(i)
                                \o <<Effect("refresh", ops[i].kind, i, "", Absent, 0, ops[i].on)>>
    /\ \A n \in 1..Len(log) : log[n].what = "publish" => log[n].op \in Mutations

\* C12 witness: a set is over with two publishers and a policy attached.
MutationPublished ==
    \E i \in Mutations :
        /\ ops[i].kind = "set" /\ ops[i].pc = "done"
        /\ Len(changePublishers) = MaxPublishers
        /\ refreshPolicies # <<>>

\* C13: the 'set'/'delete' event of a mutation comes before the events of the
\* refresh cycle it waits for; in a cycle 'changed' never follows 'refresh',
\* and a completed cycle has emitted 'refresh' exactly once.
CycleEvents(c) == {n \in 1..Len(log) : log[n].what = "emit" /\ log[n].c = c}
EventOrder ==
    /\ \A i \in Mutations : \A m, n \in 1..Len(log) :
          (log[m].what = "emit" /\ log[m].op = i /\ ops[i].on # 0 /\ n \in CycleEvents(ops[i].on))
              => m < n
    /\ \A c \in FetchIds : \A m, n \in CycleEvents(c) :
          (log[m].kind = "refresh" /\ log[n].kind = "changed") => n < m
    /\ \A c \in FetchIds :
          fetches[c].st = "fulfilled"
              => Cardinality({n \in CycleEvents(c) : log[n].kind = "refresh"}) = 1

\* C13 witness: a set is over and its cycle emitted 'changed'.
MutationCycleChanged ==
    \E i \in Mutations :
        /\ ops[i].pc = "done"
        /\ \E n \in CycleEvents(ops[i].on) : log[n].kind = "changed"

\* C14: when store.set / store.delete rejects, set/delete rejects, and that
\* step emits no event, calls no publisher, triggers no refresh (no
\* store.getAll() call) and leaves the snapshot as it was; nothing is done for
\* that call afterwards.
WriteRejected(i) == ops[i].pc = "failed" /\ ops[i].on = 0
FailedWriteStops ==
    /\ [](\A i \in Mutations :
            WriteRejected(i)
                => Of(i) = <<Effect("store", ops[i].kind, i, ops[i].name, ops[i].value, 0, 0)>>)
    /\ [][\A i \in OpIds :
            (ops[i].pc = "writing" /\ ops'[i].pc = "failed")
                => UNCHANGED <<config, store, fetches, refreshPromise, log>>]_vars

\* C14 witness: a set was rejected by the store with a publisher attached.
WriteFailed ==
    \E i \in Mutations : WriteRejected(i) /\ ops[i].kind = "set" /\ changePublishers # <<>>

\* C15: with a publisher whose publish() throws, every registered publisher is
\* still called, the refresh follows, and the outcome of the publishing step
\* is what it would be had that publisher not thrown.
Calm(publishers) ==
    [n \in 1..Len(publishers) |-> IF publishers[n] = "thrower" THEN "publisher" ELSE publishers[n]]
ThrowerHarmless ==
    /\ \A i \in Mutations :
          Published(i)
              => SelectSeq(Of(i), LAMBDA e : e.what = "publish")
                    = [n \in 1..Len(changePublishers) |->
                         Effect("publish", ops[i].kind, i, ops[i].name, ops[i].value, n, 0)]
    /\ \A i \in Mutations : ops[i].pc = "failed" => (ops[i].on = 0 \/ fetches[ops[i].on].st = "rejected")
    /\ publishAll(changePublishers, 1, subscriber, refreshPromise, fetches, now)
          = publishAll(Calm(changePublishers), 1, subscriber, refreshPromise, fetches, now)

\* C15 witness: a set is over whose first publisher threw.
ThrowerPassed ==
    \E i \in Mutations :
        /\ ops[i].pc = "done"
        /\ Len(changePublishers) = MaxPublishers
        /\ changePublishers[1] = "thrower"

\* The derived calls of the latest apply on key k.
CallsOn(k) == SelectSeq(applying.calls, LAMBDA x : x.name = k)

\* C16 (as claimed): apply issues, for each key named in the patches, a
\* store.set with the patched value when the patched snapshot has a value for
\* it, a store.delete when the key was present before and is absent after,
\* and no store operation when it was absent before and after; the calls are
\* in the order of the keys' first appearance.
ApplyCallsPerKey ==
    applying.pc # "idle"
        => /\ \A k \in AllKeys :
                CallsOn(k) =
                    IF \A n \in 1..Len(applying.patches) : applying.patches[n].path[1] # k
                    THEN <<>>
                    ELSE IF applying.post[k] # Absent
                         THEN <<[kind |-> "set", name |-> k, value |-> applying.post[k]]>>
                    ELSE IF applying.pre[k] # Absent
                         THEN <<[kind |-> "delete", name |-> k, value |-> Absent]>>
                    ELSE <<>>
           /\ [n \in 1..Len(applying.calls) |-> applying.calls[n].name]
                 = getAffectedProperties(applying.patches, Len(applying.patches))
           /\ SelectSeq(log, LAMBDA e : e.what = "store")
                 = [n \in 1..Len(applying.calls) |->
                      Effect("store", applying.calls[n].kind, n, applying.calls[n].name,
                             applying.calls[n].value, 0, 0)]

\* C17 (as claimed): the promise of apply is settled, fulfilled or rejected,
\* only when every derived set/delete is settled.
ApplyWaitsForAll ==
    applying.pc \in {"done", "failed"}
        => \A n \in 1..Len(applying.state) : applying.state[n] # "pending"

\* C18: when a derived set/delete fails, apply is not fulfilled; the writes of
\* the other derived calls that the store performed stay in the store, and
\* their 'set'/'delete' events are emitted all the same.
NoRollback ==
    /\ (\E n \in 1..Len(applying.state) : applying.state[n] = "rejected") => applying.pc # "done"
    /\ \A n \in 1..Len(applying.parts) :
          applying.wrote[n] => store[applying.calls[n].name] = applying.calls[n].value
    /\ \A n \in 1..Len(applying.parts) :
          (applying.state[n] = "pending" /\ Published(applying.parts[n]))
              => \E m \in 1..Len(log) :
                    log[m] = Effect("emit", applying.calls[n].kind, applying.parts[n],
                                    applying.calls[n].name, applying.calls[n].value, 0, 0)

\* C18 witness: apply has failed; another derived call wrote to the store and
\* emitted its event after that.
AppliedInPart ==
    /\ applying.pc = "failed"
    /\ \E n \in 1..Len(applying.parts) :
          /\ applying.wrote[n]
          /\ store[applying.calls[n].name] = applying.calls[n].value
          /\ \E m \in 1..Len(log) :
                /\ m > applying.failedAt
                /\ log[m].what = "emit" /\ log[m].op = applying.parts[n]

\* C19: when store.getAll() rejects, no caller waiting on that refresh is
\* answered with a value (each can only be rejected), no 'changed' or 'refresh'
\* event is emitted for that cycle, and the rejection leaves the snapshot as
\* it was.
FetchFailurePropagates ==
    /\ [](\A i \in OpIds :
            ops[i].pc = "done"
                => ops[i].on \in {0} \cup {c \in FetchIds : fetches[c].st = "fulfilled"})
    /\ [](\A c \in FetchIds : fetches[c].st = "rejected" => CycleEvents(c) = {})
    /\ [][\A c \in FetchIds :
            (fetches[c].st = "issued" /\ fetches'[c].st = "rejected")
                => UNCHANGED <<config, log>>]_vars
    /\ [][\A c \in FetchIds : fetches[c].st = "rejected" => fetches'[c].st = "rejected"]_vars

\* C19 witness: a read and a set that waited on the same fetch are both
\* rejected, the snapshot holding a value from an earlier cycle.
WaitersRejected ==
    \E i, j \in OpIds :
        /\ ops[i].pc = "failed" /\ ops[j].pc = "failed"
        /\ ops[i].kind = "getAll" /\ ops[j].kind = "set"
        /\ ops[i].on # 0 /\ ops[i].on = ops[j].on
        /\ fetches[ops[i].on].st = "rejected"
        /\ Restrict(config) # Restrict(EmptyMapping)

\* C20 (as claimed): after a fetch has failed, a refresh() call issues a new
\* store.getAll() call (or joins one that is in flight); it is never handed
\* the promise of the failed fetch.
RefreshRetries ==
    \A i \in OpIds :
        (ops[i].kind = "refresh" /\ ops[i].pc # "idle")
            => (ops[i].issued \/ (ops[i].during # 0 /\ ops[i].during = ops[i].on))

\* C21: get(name) with a missing name fails in the same turn and leaves the
\* coordinator as it was: store.getAll() is not called, no event is emitted
\* and the first-time flag is kept, so the first read with a name that
\* follows still refreshes without asking a policy.
MissingNameHarmless ==
    /\ [][log' = Append(log, Thrown)
            => /\ UNCHANGED <<store, config, firstTime, refreshPolicies, changePublishers,
                              refreshPromise, fetches, subscriber, lastRefresh>>
               /\ \E i \in OpIds : ops'[i].pc = "failed" /\ ops'[i].kind = "get"]_vars
    /\ [](Count("read") = 0 => (firstTime /\ Used(fetches) = 0 /\ Count("emit") = 0))
    /\ [](\A n \in 1..Len(log) :
            (log[n].what = "read" /\ \A m \in 1..(n - 1) : log[m].what = "throw")
                => log[n].c \in FetchIds)
    /\ []((lastCall.made /\ lastCall.first) => (lastCall.asked = <<>> /\ lastCall.issued))

\* C21 witness: two calls without a name, then the first read with a name,
\* under NeverRefreshPolicy, which has fetched.
ReadAfterMissingName ==
    /\ Len(log) > MaxThrows
    /\ \A m \in 1..MaxThrows : log[m].what = "throw"
    /\ log[MaxThrows + 1].what = "read"
    /\ refreshPolicies = <<"never">>
    /\ lastCall.first
    /\ fetches[1].st = "fulfilled"

\* C22 (as claimed): a shouldRefresh() call of StaleRefreshPolicy(Duration)
\* answers true iff no call answered true before or more than Duration has
\* passed since the last call that answered true; calls that answer false do
\* not move the baseline.
StaleBaseline ==
    \A n \in 1..Len(log) :
        LET trues == {m \in 1..(n - 1) : log[m].to = 1} IN
        log[n].to = 1 <=> (trues = {} \/ log[n].c - log[MaxOf(trues)].c > Duration)

\* C23 (as claimed): the first call answers true, a second call at the same
\* time answers false, and a third call made when Duration or more has passed
\* since the first answers true.
StaleExample ==
    /\ Len(log) >= 1 => log[1].to = 1
    /\ (Len(log) >= 2 /\ log[2].c = log[1].c) => log[2].to = 0
    /\ (Len(log) >= 3 /\ log[2].c = log[1].c /\ log[3].c - log[1].c >= Duration)
          => log[3].to = 1

\* The latest entry of log, when this step appended one.
Appended == Len(log') = Len(log) + 1 /\ SubSeq(log', 1, Len(log)) = log
Latest == log'[Len(log')]

\* C24: subscribe() of IntervalRefreshPolicy throws 'Already subscribed'
\* exactly when the policy holds a subscriber; a call that throws leaves the
\* subscriber and its timer in place and starts no timer: never do two timers
\* run, and the one that runs calls the subscriber held.
SubscribeOnce ==
    /\ [][(Appended /\ Latest.what \in {"subscribe", "throw"})
            => /\ Latest.what = "throw" <=> subscriber.interval # Nobody
               /\ Latest.what = "throw" => UNCHANGED subscriber]_vars
    /\ [](Cardinality(Running(subscriber)) <= 1)
    /\ [](\A n \in Running(subscriber) : subscriber.timers[n].to = subscriber.interval)
    /\ [](subscriber.interval # Nobody => Running(subscriber) # {})

\* C24 witness: a subscribe() call has thrown, and the timer of the subscriber
\* held has fired after that.
SubscribeRefused ==
    \E m, k \in 1..Len(log) :
        /\ m < k
        /\ log[m].what = "throw" /\ log[m].kind = Stranger
        /\ log[k].what = "tick" /\ log[k].kind = Self
        /\ subscriber.interval = Self

\* The ticks recorded for timer n.
TicksOf(n) == {k \in 1..Len(log) : log[k].what = "tick" /\ log[k].op = n}

\* C25: while subscribed IntervalRefreshPolicy calls subscriber.refresh() once
\* per elapsed period (a running timer has fired once for every whole period
\* since it was started, the one due at this instant aside, each time on the
\* subscriber it was started for); no tick of a timer follows the unsubscribe()
\* that cleared it; unsubscribe() leaves no subscriber and no running timer,
\* and changes nothing when no subscriber is held.
IntervalTicks ==
    /\ [](\A n \in Running(subscriber) :
            Cardinality(TicksOf(n))
                = ((now - subscriber.timers[n].at) \div Period)
                    - (IF subscriber.timers[n].due = now THEN 1 ELSE 0))
    /\ [](\A k \in 1..Len(log) :
            log[k].what = "tick"
                => /\ log[k].kind = subscriber.timers[log[k].op].to
                   /\ log[k].kind = Self => log[k].c \in FetchIds
                   /\ (log[k].to - subscriber.timers[log[k].op].at) % Period = 0)
    /\ [](\A m, k \in 1..Len(log) :
            (m < k /\ log[m].what = "unsubscribe" /\ log[k].what = "tick")
                => log[k].op # log[m].op)
    /\ [][(Appended /\ Latest.what = "unsubscribe")
            => /\ subscriber'.interval = Nobody
               /\ Running(subscriber') = {}
               /\ subscriber.interval = Nobody => UNCHANGED subscriber
               /\ UNCHANGED <<config, refreshPromise, fetches, store>>]_vars

\* C25 witness: a timer fired, unsubscribe() was called twice, and a period
\* has passed since without a tick.
UnsubscribedTwice ==
    \E j, m, k \in 1..Len(log) :
        /\ j < m /\ m < k
        /\ log[j].what = "tick" /\ log[j].op = log[m].op
        /\ log[m].what = "unsubscribe"
        /\ log[k].what = "unsubscribe"
        /\ now >= log[m].to + Period
        /\ \A x \in 1..Len(log) : x > m => log[x].what # "tick"

\* Fetch c was started by a tick; its cycle is complete: the result is applied
\* to the snapshot and 'refresh' is emitted.
TickStarted(c) == \E k \in 1..Len(log) : log[k].what = "tick" /\ log[k].c = c
Completed(c) ==
    /\ fetches[c].st = "fulfilled"
    /\ Restrict(fetches[c].val) = Restrict(fetches[c].data)
    /\ \E n \in CycleEvents(c) : log[n].kind = "refresh"

\* C26: unsubscribe() on an IntervalRefreshPolicy leaves a refresh in flight
\* as it is (the refresh promise, the fetch and the snapshot are untouched),
\* and a fetch started by a tick and in flight after the unsubscribe() still
\* completes: its result is applied and its events are emitted.
InFlightSurvives ==
    /\ [][(Appended /\ Latest.what = "unsubscribe")
            => UNCHANGED <<refreshPromise, fetches, config>>]_vars
    /\ \A c \in FetchIds :
          (TickStarted(c) /\ c \in InFlight(fetches) /\ subscriber.interval = Nobody)
              ~> Completed(c)

\* C26 witness: unsubscribe() was called between the tick that started a
\* fetch and the 'changed' event of its cycle.
CompletedAfterUnsubscribe ==
    \E j, m, k \in 1..Len(log) :
        /\ j < m /\ m < k
        /\ log[j].what = "tick" /\ log[j].c \in FetchIds
        /\ log[m].what = "unsubscribe" /\ log[m].op = log[j].op
        /\ log[k].what = "emit" /\ log[k].kind = "changed" /\ log[k].c = log[j].c
        /\ Completed(log[j].c)

\* C27: the in-memory pub/sub extension holds at most one subscriber: a
\* subscribe() call throws exactly when one is held and leaves it installed;
\* publish() never throws; with no subscriber it does nothing, with one it
\* calls the subscriber's refresh() once within the call (for the coordinator:
\* a refresh promise is held when publish() returns, with a store.getAll()
\* call made iff none was held before).
PubSubSingle ==
    /\ [][(Appended /\ Latest.what \in {"subscribe", "throw"})
            => /\ Latest.what = "throw" <=> subscriber.pubsub # Nobody
               /\ Latest.what = "throw" => UNCHANGED subscriber]_vars
    /\ [][subscriber.pubsub # Nobody => subscriber'.pubsub = subscriber.pubsub]_vars
    /\ [][(Appended /\ Latest.what \in {"publish", "raise"})
            => /\ Latest.what = "publish"
               /\ Latest.op = (IF subscriber.pubsub = Nobody THEN 0 ELSE 1)
               /\ UNCHANGED <<config, store, subscriber>>
               /\ subscriber.pubsub # Self => UNCHANGED <<refreshPromise, fetches>>
               /\ subscriber.pubsub = Self
                    => /\ refreshPromise' \in FetchIds
                       /\ refreshPromise # 0 => UNCHANGED <<refreshPromise, fetches>>
                       /\ refreshPromise = 0
                            => /\ Used(fetches') = Used(fetches) + 1
                               /\ fetches'[refreshPromise'].st = "issued"]_vars

\* C27 witness: publish() without a subscriber, subscribe() by the
\* coordinator, a refused subscribe(), and a publish() that made the
\* coordinator fetch.
PublishedToSubscriber ==
    \E i, j, m, k \in 1..Len(log) :
        /\ i < j /\ j < m /\ m < k
        /\ log[i].what = "publish" /\ log[i].op = 0
        /\ log[j].what = "subscribe" /\ log[j].kind = Self
        /\ log[m].what = "throw" /\ log[m].kind = Stranger
        /\ log[k].what = "publish" /\ log[k].op = 1 /\ log[k].c \in FetchIds
        /\ subscriber.pubsub = Self

\* C28: a withExtension(e) call that returns returns the coordinator; for a
\* null e nothing changes; otherwise e is appended to the refresh policies iff
\* it has shouldRefresh, to the change publishers iff it has publish, and
\* e.subscribe(coordinator) is called once iff it has subscribe (the
\* coordinator is then its subscriber); an extension with none of the three
\* is filed in no list.  The snapshot and the refresh state are not touched.
ExtensionFiled ==
    [][(Appended /\ Latest.what = "extend")
        => LET e == Latest.kind IN
           /\ Latest.name = Self
           /\ e = "null" => UNCHANGED <<refreshPolicies, changePublishers, subscriber>>
           /\ e # "null"
                => /\ refreshPolicies' = IF HasShouldRefresh(e) THEN Append(refreshPolicies, e)
                                         ELSE refreshPolicies
                   /\ changePublishers' = IF HasPublish(e) THEN Append(changePublishers, e)
                                          ELSE changePublishers
                   /\ Latest.op = (IF HasSubscribe(e) THEN 1 ELSE 0)
                   /\ HasSubscribe(e) => (subscriber[e] = Nobody /\ subscriber'[e] = Self)
                   /\ ~HasSubscribe(e) => UNCHANGED subscriber
           /\ UNCHANGED <<config, store, firstTime, refreshPromise, fetches>>]_vars

\* C28 witness: the pub/sub extension, a reactive policy and an object with no
\* capability were registered on a coordinator in use.
ExtensionsRegistered ==
    /\ \E k \in 1..Len(log) : log[k].what = "extend" /\ log[k].kind = "plain"
    /\ refreshPolicies = <<"stale">>
    /\ changePublishers = <<"pubsub">>
    /\ subscriber.pubsub = Self
    /\ ~firstTime

\* C29: a withExtension(e) call that fails because e.subscribe throws
\* 'Already subscribed' leaves the refresh policies, the change publishers and
\* the snapshot exactly as they were, and the subscriber e holds, too.
FailedExtensionHarmless ==
    [][(Appended /\ Latest.what = "throw")
        => /\ subscriber[Latest.kind] # Nobody
           /\ UNCHANGED <<refreshPolicies, changePublishers, config, subscriber, store,
                          firstTime, refreshPromise, fetches>>]_vars

\* C29 witness: registering the pub/sub extension a second time has failed,
\* with it and a policy registered.
SecondRegistrationFailed ==
    /\ \E j, k \in 1..Len(log) :
          /\ j < k
          /\ log[j].what = "extend" /\ log[j].kind = "pubsub"
          /\ log[k].what = "throw" /\ log[k].kind = "pubsub"
    /\ changePublishers = <<"pubsub">>
    /\ Len(refreshPolicies) = 1

\* The listeners registered before the latest cycle emitted its events, and
\* what listener k received in that cycle.
CycleStart == MaxOf({0} \cup {n \in 1..Len(log) : log[n].what = "emit" /\ log[n].c = last.c
                                /\ \A m \in 1..(n - 1) : ~(log[m].what = "emit" /\ log[m].c = last.c)})
ListenersBefore == {n \in 1..(CycleStart - 1) : log[n].what = "on"}
Received(k) == SelectSeq(log, LAMBDA e : e.what = "receive" /\ e.op = k /\ e.c = last.c)

ReentrantRefreshAttaches ==
    \A n \in 1..Len(log) :
        log[n].what = "reenter" => (log[n].c = log[n].op /\ log[n].to = 0)

\* The reads recorded so far, and the mutations fulfilled before the latest of
\* them was called.
ReadsLogged == {n \in 1..Len(log) : log[n].what = "read"}
WritesDoneBefore(k) ==
    {n \in 1..(k - 1) : log[n].what = "done" /\ log[n].kind \in {"set", "delete"}}

\* C32 (as claimed): the first read or the first write, whichever comes first,
\* uses up the first call: a get/getAll called after a set/delete was
\* fulfilled is no first call, and refreshes only if a policy answers true.
FirstReadOrWrite ==
    (lastCall.made /\ WritesDoneBefore(MaxOf(ReadsLogged)) # {})
        => /\ ~lastCall.first
           /\ lastCall.refreshed <=> (\E n \in 1..Len(lastCall.answers) : lastCall.answers[n])

\* C32 (amended): only the first read uses up the first call.  A set or
\* delete, fulfilled or not, leaves it: the coordinator is in its first-call
\* state exactly as long as no get/getAll was called; the first get/getAll
\* asks no policy and calls refresh(), also after a set/delete was fulfilled,
\* and every later one calls refresh() iff a policy answers true.
FirstReadOnly ==
    /\ firstTime <=> ReadsLogged = {}
    /\ lastCall.made
          => /\ lastCall.first <=> Cardinality(ReadsLogged) = 1
             /\ lastCall.first => (lastCall.asked = <<>> /\ lastCall.refreshed)
             /\ ~lastCall.first
                   => (lastCall.refreshed
                          <=> (\E n \in 1..Len(lastCall.answers) : lastCall.answers[n]))

\* C32 witness: under NeverRefreshPolicy the first read was called after a set
\* was fulfilled, and fetched again.
FirstReadAfterWrite ==
    /\ refreshPolicies = <<"never">>
    /\ Cardinality(ReadsLogged) = 1
    /\ \E n \in WritesDoneBefore(MaxOf(ReadsLogged)) : log[n].kind = "set"
    /\ lastCall.first /\ lastCall.issued /\ lastCall.on = 2

\* C33 (as claimed): the live snapshot, the values nested under its keys
\* included, changes only in the callback of a refresh cycle whose fetch
\* succeeded; get, getAll, set, delete, apply(patches) and withExtension never
\* change it themselves.
SnapshotOwnedByRefresh ==
    [][config' # config
          => \E c \in FetchIds : fetches[c].st = "responded" /\ fetches'[c].st = "fulfilled"]_vars

\* What a holder of object ref sees in it: the live snapshot when it is the
\* object this.config names, and otherwise what it held when it was replaced.
Seen(ref) ==
    IF ref = configObject THEN config
    ELSE log[CHOOSE n \in 1..Len(log) :
                log[n].what = "object" /\ log[n].to = ref /\ log[n].c # ref].config
Handed == {n \in 1..Len(log) : log[n].what = "handed"}

ReadYourWrites ==
    \A i \in OpIds :
        (ops[i].pc = "done" /\ ops[i].kind \in {"set", "delete"})
            => /\ ops[i].snap[ops[i].name] = ops[i].value
               /\ config[ops[i].name] = ops[i].value

\* C36 (as claimed): a get/getAll is fulfilled only after at least one fetch
\* has completed successfully, also when it was called while the first fetch
\* was in flight or after the first fetch failed.
ReadsPopulated ==
    \A i \in OpIds :
        (ops[i].pc = "done" /\ ops[i].kind \in {"get", "getAll"})
            => \E c \in FetchIds : fetches[c].st = "fulfilled"

\* C37 (as claimed): with the in-memory pub/sub extension attached, each
\* successful set or delete causes exactly one store.getAll() call and one
\* 'refresh' event: the refresh publish() starts and the refresh after the
\* mutation share one fetch.
PublishCoalesces ==
    Writing = {}
        => /\ Used(fetches) = Count("done")
           /\ Cardinality({n \in 1..Len(log) : log[n].what = "emit" /\ log[n].kind = "refresh"})
                 = Count("done")

\* The events of one name that the cycle of fetch c emitted.
EventsOf(c, name) ==
    {n \in 1..Len(log) : log[n].what = "emit" /\ log[n].kind = name /\ log[n].c = c}

\* C38: every store.getAll() call that completed successfully has emitted,
\* once its callback has run, exactly one 'refresh' event and at most one
\* 'changed' event, however many callers wait for it; a call that failed or
\* is still in flight has emitted none; so the 'refresh' events emitted are as
\* many as the fetches completed.
RefreshPerFetch ==
    /\ \A c \in FetchIds :
          /\ Cardinality(EventsOf(c, "refresh")) = (IF fetches[c].st = "fulfilled" THEN 1 ELSE 0)
          /\ Cardinality(EventsOf(c, "changed")) <= Cardinality(EventsOf(c, "refresh"))
    /\ Cardinality({n \in 1..Len(log) : log[n].what = "emit" /\ log[n].kind \in {"refresh", "changed"}
                                          /\ log[n].c \notin FetchIds}) = 0
    /\ Cardinality(UNION {EventsOf(c, "refresh") : c \in FetchIds})
          = Cardinality({c \in FetchIds : fetches[c].st = "fulfilled"})

\* C38 witness: two callers waited for one fetch, which emitted one 'refresh'
\* event and no 'changed' event, after a fetch that emitted both.
CoalescedOneRefresh ==
    /\ \E i, j \in OpIds :
          /\ i # j
          /\ ops[i].on = 2 /\ ops[j].on = 2
          /\ ops[i].pc = "done" /\ ops[j].pc = "done"
    /\ Cardinality(EventsOf(1, "changed")) = 1
    /\ Cardinality(EventsOf(2, "refresh")) = 1
    /\ EventsOf(2, "changed") = {}

\* The mutations that got as far as their refresh(), those among them that
\* were rejected because the fetch they waited for was, and the effects
\* recorded since the latest mutation was called.
Refreshing == {i \in OpIds : ops[i].kind \in {"set", "delete"} /\ ops[i].on \in FetchIds}
FailedInRefresh == {i \in Refreshing : ops[i].pc = "failed"}
SinceWrite == SubSeq(log, MaxOf({n \in 1..Len(log) : log[n].what = "store"}), Len(log))

\* C39: a set/delete whose store write succeeded and whose fetch is rejected
\* is rejected, never fulfilled; by then the store holds the write, its
\* 'set'/'delete' event is emitted and every publisher was called; the
\* rejection changes neither the store nor the snapshot and takes back none
\* of the effects.
WriteSurvivesFailedRefresh ==
    /\ [](\A i \in Refreshing : fetches[ops[i].on].st = "rejected" => ops[i].pc # "done")
    /\ [](\A i \in FailedInRefresh :
            /\ fetches[ops[i].on].st = "rejected"
            /\ store[ops[i].name] = ops[i].value
            /\ \E n \in 1..Len(SinceWrite) :
                  SinceWrite[n] = Effect("emit", ops[i].kind, i, ops[i].name, ops[i].value, 0, 0)
            /\ \A p \in 1..Len(changePublishers) :
                  \E n \in 1..Len(SinceWrite) :
                      SinceWrite[n] = Effect("publish", ops[i].kind, i, ops[i].name,
                                             ops[i].value, p, 0))
    /\ [][\A i \in OpIds :
            (ops[i].pc = "waiting" /\ ops'[i].pc = "failed")
                => (UNCHANGED <<store, config>> /\ log' = log)]_vars

\* C39 witness: a set was rejected after its write, with two publishers
\* attached; the store holds the value and the snapshot does not.
WrittenButRejected ==
    \E i \in FailedInRefresh :
        /\ ops[i].kind = "set"
        /\ Len(changePublishers) = 2
        /\ store[ops[i].name] = ops[i].value
        /\ config[ops[i].name] # ops[i].value

\* C40: with a store whose getAll/set/delete calls all settle, every get,
\* getAll, set, delete and refresh call that is pending is settled in the end,
\* fulfilled or rejected, and so is the promise of every apply; a caller that
\* waits for a fetch which has settled does not stay pending.
EveryCallSettles ==
    /\ \A i \in OpIds : (~Finished(i)) ~> Finished(i)
    /\ (applying.pc = "waiting") ~> (applying.pc \in {"done", "failed"})
    /\ \A i \in OpIds :
          (/\ ops[i].pc = "waiting"
           /\ \E c \in FetchIds : ops[i].on = c /\ fetches[c].st \in {"fulfilled", "rejected"})
              ~> Finished(i)

\* C40 witness: two callers that waited for one fetch are both settled, one
\* of them a set, the fetch having been rejected; an apply has settled, too.
AllSettled ==
    /\ \E i, j \in OpIds :
          /\ i # j
          /\ ops[i].on \in FetchIds /\ ops[i].on = ops[j].on
          /\ fetches[ops[i].on].st = "rejected"
          /\ ops[i].pc = "failed" /\ ops[j].pc = "failed"
          /\ ops[i].kind = "set"
    /\ applying.pc \in {"done", "failed"}

====
